---- MODULE Spec2Model ----
(***************************************************************************)
(* A model of pmtilr, a read-only client for PMTiles v3 archives.          *)
(*                                                                         *)
(*   SpecDir   the directory codec (readEntries) and Directory.FindTile,   *)
(*             applied to bounded wire inputs and tile ids                 *)
(*   SpecTile  Source.Tile calls, one after the other, on archives whose   *)
(*             directory trees have tiles, runs, chains and cycles         *)
(*   Spec      callers running Repository.DirectoryAt at the same time:    *)
(*             cache, single-flight group, cancellation, eviction          *)
(*   SpecShared      the same callers on two sources with different etags, *)
(*                   and buildCacheKey on pairs of triples                 *)
(*   SpecHilbert     both Hilbert encoders and decoders on triples (z,x,y) *)
(*   SpecHeader      NewHeader and HeaderV3.ReadFrom on header bytes       *)
(*   SpecRange       the file and object-store ReadRange on one range      *)
(*   SpecDecompress  Decompress on a stream under every compression tag    *)
(*   SpecStreams     NewDirectory, readTileBytes and Metadata.ReadFrom on  *)
(*                   the stream a ReadRange returns                        *)
(*   SpecSource      NewSource followed by Tile, Header and Meta calls     *)
(*   SpecLive        Spec on one archive, with the scheduler's fairness    *)
(*                                                                         *)
(* Machine words are scaled: a uint64 is a UintBits-bit word and a uint32  *)
(* a Uint32Bits-bit word.  8 = 7*1 + 1 keeps the shape of 64 = 7*9 + 1, so *)
(* the longest varint (MaxVarintLen bytes) ends in a byte that may only be *)
(* 0 or 1, as in encoding/binary.                                          *)
(***************************************************************************)
EXTENDS Integers, Sequences, FiniteSets, TLC

UintBits == 8
Uint32Bits == 4
U64 == 2 ^ UintBits
U32 == 2 ^ Uint32Bits
MaxVarintLen == (UintBits + 6) \div 7

\* The largest int64, and thereby the largest length make() accepts.
MaxInt64 == U64 \div 2 - 1

\* Bounds of the directory inputs.
MaxEntries == 3

NoErr == [field |-> "", at |-> 0, cause |-> ""]

ZeroEntry == [TileID |-> 0, Offset |-> 0, Length |-> 0, RunLength |-> 0]

Range1(n) == 1..n

(***************************************************************************)
(* encoding/binary: ReadUvarint reads one unsigned LEB128 number from the  *)
(* bytes s, starting at index pos (1-based).  x | b<<shift is x + b<<shift *)
(* here: x only holds bits below shift.                                    *)
(***************************************************************************)
RECURSIVE ReadUvarintFrom(_, _, _, _, _)
ReadUvarintFrom(s, pos, i, x, shift) ==
    IF i >= MaxVarintLen
    THEN [val |-> x, pos |-> pos, err |-> "overflow"]
    ELSE IF pos > Len(s)
    THEN [val |-> x, pos |-> pos,
          err |-> IF i > 0 THEN "unexpected EOF" ELSE "EOF"]
    ELSE LET b == s[pos] IN
         IF b < 128
         THEN IF i = MaxVarintLen - 1 /\ b > 1
              THEN [val |-> x, pos |-> pos + 1, err |-> "overflow"]
              ELSE [val |-> (x + b * (2 ^ shift)) % U64, pos |-> pos + 1, err |-> ""]
         ELSE ReadUvarintFrom(s, pos + 1, i + 1,
                              (x + (b % 128) * (2 ^ shift)) % U64, shift + 7)

ReadUvarint(s, pos) == ReadUvarintFrom(s, pos, 0, 0, 0)

\* binary.PutUvarint, as the tests' writeUvarint uses it.
RECURSIVE PutUvarint(_)
PutUvarint(v) ==
    IF v >= 128 THEN <<(v % 128) + 128>> \o PutUvarint(v \div 128) ELSE <<v>>

(***************************************************************************)
(* Entries.addTileID .. addOffset: each reads len(e) varints and fills one *)
(* field.  A state of the decoder is [e, pos, err]; i is the 1-based index *)
(* of the entry being read (the code's i is i - 1).                        *)
(***************************************************************************)
FieldErr(field, i, cause) == [field |-> field, at |-> i - 1, cause |-> cause]

RECURSIVE addTileIDFrom(_, _, _, _, _)
addTileIDFrom(e, s, pos, i, lastId) ==
    IF i > Len(e) THEN [e |-> e, pos |-> pos, err |-> NoErr]
    ELSE LET r == ReadUvarint(s, pos) IN
         IF r.err # ""
         THEN [e |-> e, pos |-> r.pos, err |-> FieldErr("tileId delta", i, r.err)]
         ELSE LET id == (lastId + r.val) % U64 IN
              addTileIDFrom([e EXCEPT ![i].TileID = id], s, r.pos, i + 1, id)

addTileID(e, s, pos) == addTileIDFrom(e, s, pos, 1, 0)

RECURSIVE addRunLengthFrom(_, _, _, _)
addRunLengthFrom(e, s, pos, i) ==
    IF i > Len(e) THEN [e |-> e, pos |-> pos, err |-> NoErr]
    ELSE LET r == ReadUvarint(s, pos) IN
         IF r.err # ""
         THEN [e |-> e, pos |-> r.pos, err |-> FieldErr("runLength", i, r.err)]
         ELSE addRunLengthFrom([e EXCEPT ![i].RunLength = r.val % U32], s, r.pos, i + 1)

addRunLength(e, s, pos) == addRunLengthFrom(e, s, pos, 1)

RECURSIVE addLengthFrom(_, _, _, _)
addLengthFrom(e, s, pos, i) ==
    IF i > Len(e) THEN [e |-> e, pos |-> pos, err |-> NoErr]
    ELSE LET r == ReadUvarint(s, pos) IN
         IF r.err # ""
         THEN [e |-> e, pos |-> r.pos, err |-> FieldErr("length", i, r.err)]
         ELSE addLengthFrom([e EXCEPT ![i].Length = r.val], s, r.pos, i + 1)

addLength(e, s, pos) == addLengthFrom(e, s, pos, 1)

\* A decoder that propagates the previous offset without adding the length.
DecodeOffsetNoLength(e, i, stored) ==
    IF stored = 0 /\ i > 1
    THEN e[i - 1].Offset
    ELSE (stored - 1) % U64

\* The offset of entry i: propagated from entry i-1 for a stored 0 at i > 1,
\* stored - 1 otherwise (unsigned, so a stored 0 at the first entry wraps).
DecodeOffset(e, i, stored) ==
    IF stored = 0 /\ i > 1
    THEN (e[i - 1].Offset + e[i - 1].Length) % U64
    ELSE (stored - 1) % U64

RECURSIVE addOffsetFrom(_, _, _, _)
addOffsetFrom(e, s, pos, i) ==
    IF i > Len(e) THEN [e |-> e, pos |-> pos, err |-> NoErr]
    ELSE LET r == ReadUvarint(s, pos) IN
         IF r.err # ""
         THEN [e |-> e, pos |-> r.pos, err |-> FieldErr("offset", i, r.err)]
         ELSE addOffsetFrom([e EXCEPT ![i].Offset = DecodeOffset(e, i, r.val)],
                            s, r.pos, i + 1)

addOffset(e, s, pos) == addOffsetFrom(e, s, pos, 1)

\* The passes of Entries.deserialize after the first, each run unless the
\* pass before it failed: "if err := ...; err != nil { return err }".
ThenRunLength(d, s) == IF d.err # NoErr THEN d ELSE addRunLength(d.e, s, d.pos)

ThenLength(d, s) == IF d.err # NoErr THEN d ELSE addLength(d.e, s, d.pos)

ThenOffset(d, s) == IF d.err # NoErr THEN d ELSE addOffset(d.e, s, d.pos)

\* Entries.deserialize: the four passes in order, stopping at the first error.
EntriesDeserialize(e, s, pos) ==
    ThenOffset(ThenLength(ThenRunLength(addTileID(e, s, pos), s), s), s)

\* What readEntries returns after deserialize: the slice and the error.
Decoded(d) == [entries |-> d.e, err |-> d.err]

\* readEntries: the count, then make([]Entry, count) and deserialize.  On an
\* error of deserialize the partly filled slice is returned with the error.
\* make panics on a count that is no int; the panic is the field "panic".
readEntries(s) ==
    LET n == ReadUvarint(s, 1) IN
    IF n.err # ""
    THEN [entries |-> <<>>, err |-> [field |-> "directory entries count", at |-> 0,
                                     cause |-> n.err]]
    ELSE IF n.val > MaxInt64
    THEN [entries |-> <<>>, err |-> [field |-> "panic", at |-> 0,
                                     cause |-> "makeslice: len out of range"]]
    ELSE Decoded(EntriesDeserialize([i \in Range1(n.val) |-> ZeroEntry], s, n.pos))

(***************************************************************************)
(* Directory.FindTile.  sort.Search is the standard library's binary       *)
(* search: the smallest index in [0, n) for which the predicate holds,     *)
(* provided the predicate is monotone; on an unsorted slice it returns     *)
(* whatever the bisection arrives at.  Indices here are 0-based as in Go;  *)
(* entries[i] of the code is entries[i + 1] of the sequence.               *)
(***************************************************************************)
RECURSIVE SortSearchFrom(_, _, _, _)
SortSearchFrom(entries, tileId, i, j) ==
    IF i >= j THEN i
    ELSE LET h == (i + j) \div 2 IN
         IF ~(entries[h + 1].TileID > tileId)
         THEN SortSearchFrom(entries, tileId, h + 1, j)
         ELSE SortSearchFrom(entries, tileId, i, h)

SortSearch(entries, tileId) == SortSearchFrom(entries, tileId, 0, Len(entries))

\* A lookup whose run covers one tile id too many.
FindTileRunInclusive(entries, tileId) ==
    LET i == SortSearch(entries, tileId) IN
    IF i = 0 THEN 0
    ELSE LET e == entries[i] IN
         IF e.RunLength = 0 THEN i
         ELSE IF tileId = e.TileID \/ tileId <= (e.TileID + e.RunLength) % U64 THEN i
         ELSE 0

\* The result is the 1-based index of the entry returned, 0 for nil.
FindTile(entries, tileId) ==
    LET i == SortSearch(entries, tileId) IN
    IF i = 0 THEN 0
    ELSE LET e == entries[i] IN
         IF e.RunLength = 0 THEN i
         ELSE IF tileId = e.TileID \/ tileId < (e.TileID + e.RunLength) % U64 THEN i
         ELSE 0

(***************************************************************************)
(* A conformant serializer of a directory (the writer side of the wire     *)
(* format, as the tests build it): count, tileId deltas, run lengths,      *)
(* lengths, then offsets stored as offset + 1, or as 0 where the entry     *)
(* starts where the previous one ended.                                    *)
(***************************************************************************)
StoredOffset(e, i) ==
    IF i > 1 /\ e[i].Offset = e[i - 1].Offset + e[i - 1].Length
    THEN 0
    ELSE e[i].Offset + 1

WireValues(e) ==
    <<Len(e)>>
    \o [i \in Range1(Len(e)) |->
            (e[i].TileID - (IF i = 1 THEN 0 ELSE e[i - 1].TileID)) % U64]
    \o [i \in Range1(Len(e)) |-> e[i].RunLength]
    \o [i \in Range1(Len(e)) |-> e[i].Length]
    \o [i \in Range1(Len(e)) |-> StoredOffset(e, i)]

RECURSIVE PutUvarints(_)
PutUvarints(vals) ==
    IF vals = <<>> THEN <<>> ELSE PutUvarint(Head(vals)) \o PutUvarints(Tail(vals))

Serialize(e) == PutUvarints(WireValues(e))

(***************************************************************************)
(* Compression: the codec tags and Decompress.  A gzip stream is modelled  *)
(* as the two magic bytes followed by the payload; the gzip reader checks  *)
(* the magic when it is reset on the stream and then yields the payload.   *)
(***************************************************************************)
CompressionUnknown == 0
CompressionNone == 1
CompressionGZIP == 2
CompressionBrotli == 3
CompressionZstd == 4

GzipMagic == <<31, 139>>

Gzip(b) == GzipMagic \o b

IsGzip(s) == Len(s) >= 2 /\ SubSeq(s, 1, 2) = GzipMagic

\* A Decompress that hands every codec but gzip through unchanged.
DecompressOrPass(s, compression) ==
    IF compression # CompressionGZIP
    THEN [data |-> s, err |-> "", dangling |-> FALSE]
    ELSE IF IsGzip(s)
    THEN [data |-> SubSeq(s, 3, Len(s)), err |-> "", dangling |-> FALSE]
    ELSE [data |-> <<>>, err |-> "gzip.NewReader", dangling |-> FALSE]

\* Decompress(r, compression): the bytes the returned reader yields, the
\* error, and whether the underlying stream r is still open and owned by
\* nobody (NewGZIPReadCloser closes r when Reset fails; the default branch
\* returns without touching r).
Decompress(s, compression) ==
    IF compression \in {CompressionNone, CompressionUnknown}
    THEN [data |-> s, err |-> "", dangling |-> FALSE]
    ELSE IF compression = CompressionGZIP
    THEN IF IsGzip(s)
         THEN [data |-> SubSeq(s, 3, Len(s)), err |-> "", dangling |-> FALSE]
         ELSE [data |-> <<>>, err |-> "gzip.NewReader", dangling |-> FALSE]
    ELSE [data |-> <<>>, err |-> "unsupported compression", dangling |-> TRUE]

(***************************************************************************)
(* Strings are sequences of one-character strings.                         *)
(***************************************************************************)
Digit(d) == <<"0", "1", "2", "3", "4", "5", "6", "7", "8", "9">>[d + 1]

\* strconv.AppendUint(buf, n, 10)
RECURSIVE Decimal(_)
Decimal(n) == IF n < 10 THEN <<Digit(n)>> ELSE Decimal(n \div 10) \o <<Digit(n % 10)>>

\* The number a decimal numeral denotes.
RECURSIVE DecimalValue(_)
DecimalValue(f) ==
    IF f = <<>> THEN 0
    ELSE 10 * DecimalValue(SubSeq(f, 1, Len(f) - 1))
         + (CHOOSE d \in 0..9 : Digit(d) = f[Len(f)])

\* A key that leaves the etag out.
buildCacheKeyNoEtag(etag, offset, length) ==
    Decimal(offset) \o <<":">> \o Decimal(length)

buildCacheKey(etag, offset, length) ==
    etag \o <<":">> \o Decimal(offset) \o <<":">> \o Decimal(length)

(***************************************************************************)
(* Errors of the resolver: the wrapping operation, and the cause (for a    *)
(* decode error the field and index of readEntries).                       *)
(***************************************************************************)
Nil == [op |-> "", field |-> "", at |-> 0, cause |-> ""]

Errorf(op, cause) == [op |-> op, field |-> "", at |-> 0, cause |-> cause]

DecodeErrorf(op, e) == [op |-> op, field |-> e.field, at |-> e.at, cause |-> e.cause]

EmptyDirectory == [key |-> <<>>, size |-> 0, entries |-> <<>>]

(***************************************************************************)
(* Range readers.  A range with length 0 fails validation before any I/O.  *)
(* The file reader is a SectionReader over [offset, offset + length): it   *)
(* never looks at the context and yields the bytes up to end of file.  The *)
(* object-store reader passes the context to GetObject, which fails when   *)
(* the context is canceled or the request fails (ioOk = FALSE).            *)
(***************************************************************************)
Min(a, b) == IF a < b THEN a ELSE b

FileBytes(file, offset, length) == SubSeq(file, offset + 1, Min(offset + length, Len(file)))

\* A reader that skips Validate.
ReadRangeUnchecked(reader, file, offset, length, canceled, ioOk) ==
    IF reader = "s3" /\ canceled
    THEN [stream |-> <<>>, err |-> "context canceled", io |-> TRUE]
    ELSE IF reader = "s3" /\ ~ioOk
    THEN [stream |-> <<>>, err |-> "GetObject failed", io |-> TRUE]
    ELSE [stream |-> FileBytes(file, offset, length), err |-> "", io |-> TRUE]

ReadRange(reader, file, offset, length, canceled, ioOk) ==
    IF length = 0
    THEN [stream |-> <<>>, err |-> "invalid ranger", io |-> FALSE]
    ELSE IF reader = "s3" /\ canceled
    THEN [stream |-> <<>>, err |-> "context canceled", io |-> TRUE]
    ELSE IF reader = "s3" /\ ~ioOk
    THEN [stream |-> <<>>, err |-> "GetObject failed", io |-> TRUE]
    ELSE [stream |-> FileBytes(file, offset, length), err |-> "", io |-> TRUE]

(***************************************************************************)
(* NewDirectory: ReadRange, decompress with the internal codec, then       *)
(* deserialize; the deferred Close releases the stream.  The result names  *)
(* the streams left open (a failed decompress leaves the range stream).    *)
(* DirectoryFromStream is the part after ReadRange succeeded.              *)
(***************************************************************************)
\* Directory.deserialize and the return of NewDirectory.
DirectoryDeserialize(r) ==
    IF r.err.field = "panic"
    THEN [dir |-> EmptyDirectory, err |-> Errorf("panic", r.err.cause), open |-> 0]
    ELSE IF r.err # NoErr
    THEN [dir |-> EmptyDirectory, err |-> DecodeErrorf("deserializing directory", r.err),
          open |-> 0]
    ELSE [dir |-> [key |-> <<>>, size |-> Len(r.entries), entries |-> r.entries],
          err |-> Nil, open |-> 0]

DirectoryFromDecompressed(dec) ==
    IF dec.err # ""
    THEN [dir |-> EmptyDirectory, err |-> Errorf("decompressing directory", dec.err),
          open |-> IF dec.dangling THEN 1 ELSE 0]
    ELSE DirectoryDeserialize(readEntries(dec.data))

DirectoryFromStream(header, stream) ==
    DirectoryFromDecompressed(Decompress(stream, header.InternalCompression))

DirectoryFromRange(header, rr) ==
    IF rr.err # ""
    THEN [dir |-> EmptyDirectory, err |-> Errorf("reading directory from source", rr.err),
          open |-> 0]
    ELSE DirectoryFromStream(header, rr.stream)

NewDirectory(header, reader, file, offset, length, canceled, ioOk) ==
    DirectoryFromRange(header, ReadRange(reader, file, offset, length, canceled, ioOk))

(***************************************************************************)
(* FastZXYToHilbertTileID.  The 32-bit lookup tables are kept as two       *)
(* 16-bit halves; the row index is even, so the two bits looked up never   *)
(* straddle the halves.                                                    *)
(***************************************************************************)
Lut1Hi == 13854
Lut1Lo == 40116
Lut2Hi == 36838
Lut2Lo == 22577
MaxFastZoom == 31

Lookup2(hi, lo, row) ==
    IF row >= 16 THEN (hi \div (2 ^ (row - 16))) % 4 ELSE (lo \div (2 ^ row)) % 4

Bit(v, i) == (v \div (2 ^ i)) % 2

RECURSIVE FastHilbertFrom(_, _, _, _, _)
FastHilbertFrom(i, x, y, state, result) ==
    IF i = 0 THEN result
    ELSE LET row2 == state * 8 + Bit(x, i - 1) * 4 + Bit(y, i - 1) * 2 IN
         FastHilbertFrom(i - 1, x, y, Lookup2(Lut2Hi, Lut2Lo, row2),
                         result * 4 + Lookup2(Lut1Hi, Lut1Lo, row2))

FastZXYToHilbertTileID(z, x, y) ==
    IF z > MaxFastZoom THEN [id |-> 0, err |-> "tile zoom exceeds 64-bit limit"]
    ELSE IF x >= 2 ^ z \/ y >= 2 ^ z
    THEN [id |-> 0, err |-> "tile x/y outside zoom level bounds"]
    ELSE [id |-> ((2 ^ (2 * z)) - 1) \div 3 + FastHilbertFrom(z, x, y, 0, 0), err |-> ""]

(***************************************************************************)
(* The reference Hilbert codec (ZXYToHilbertTileID, ZXYFromHilbertTileID)  *)
(* and the fast decoder.  Tile ids are computed in a HilbertBits-bit word  *)
(* (a uint64 scaled to 16 bits): sums, differences, products and shifts    *)
(* wrap, and a shift by the word size or more yields 0, as in Go.  On word *)
(* values below 2^15 the operations are those of the 64-bit code.          *)
(***************************************************************************)
HilbertBits == 16

HilbertWord == 2 ^ HilbertBits

MaxZ == 26

\* 0x5555...: the first tile id whose zoom does not fit the word.
invalidTileID == (HilbertWord - 1) \div 3

Shl(a, n) == IF n >= HilbertBits THEN 0 ELSE (a * (2 ^ n)) % HilbertWord

Shr(a, n) == IF n >= HilbertBits THEN 0 ELSE a \div (2 ^ n)

WAdd(a, b) == (a + b) % HilbertWord

WSub(a, b) == (a - b) % HilbertWord

WMul(a, b) == (a * b) % HilbertWord

RECURSIVE BitAnd(_, _)
BitAnd(a, b) ==
    IF a = 0 \/ b = 0 THEN 0
    ELSE ((a % 2) * (b % 2)) + 2 * BitAnd(a \div 2, b \div 2)

RECURSIVE BitXor(_, _)
BitXor(a, b) ==
    IF a = 0 THEN b
    ELSE IF b = 0 THEN a
    ELSE (((a % 2) + (b % 2)) % 2) + 2 * BitXor(a \div 2, b \div 2)

RECURSIVE BitOr(_, _)
BitOr(a, b) ==
    IF a = 0 THEN b
    ELSE IF b = 0 THEN a
    ELSE (IF (a % 2) + (b % 2) > 0 THEN 1 ELSE 0) + 2 * BitOr(a \div 2, b \div 2)

\* bits.Len64
RECURSIVE BitLen(_)
BitLen(c) == IF c = 0 THEN 0 ELSE 1 + BitLen(c \div 2)

\* A rotation that forgets to swap x and y in the flipped quadrant.
rotateNoSwap(n, x, y, rx, ry) ==
    IF ry = 0
    THEN IF rx # 0 THEN <<WSub(WSub(n, 1), x), WSub(WSub(n, 1), y)>> ELSE <<y, x>>
    ELSE <<x, y>>

rotate(n, x, y, rx, ry) ==
    IF ry = 0
    THEN IF rx # 0 THEN <<WSub(WSub(n, 1), y), WSub(WSub(n, 1), x)>> ELSE <<y, x>>
    ELSE <<x, y>>

\* The loop of ZXYToHilbertTileID: s runs from 1 << (z - 1) down to 1.
RECURSIVE ToHilbertFrom(_, _, _, _, _)
ToHilbertFrom(s, pos, tx, ty, accumulator) ==
    IF s = 0 THEN accumulator
    ELSE ToHilbertFrom(
            Shr(s, 1), WSub(pos, 1),
            rotate(s, tx, ty, BitAnd(tx, s), BitAnd(ty, s))[1],
            rotate(s, tx, ty, BitAnd(tx, s), BitAnd(ty, s))[2],
            WAdd(accumulator,
                 WMul(BitXor(WMul(3, BitAnd(tx, s)), BitAnd(ty, s)), Shl(1, pos))))

ZXYToHilbertTileID(z, x, y) ==
    IF z > MaxZ THEN [id |-> 0, err |-> "zoom exceeds limit"]
    ELSE IF x >= Shl(1, z) \/ y >= Shl(1, z)
    THEN [id |-> 0, err |-> "tile coordinates outside of bounds"]
    ELSE [id |-> ToHilbertFrom(Shl(1, WSub(z, 1)), WSub(z, 1), x, y,
                               WSub(WMul(Shl(1, z), Shl(1, z)), 1) \div 3),
          err |-> ""]

\* A zoom computed from the bit length without the "- 1".
ZoomFromBitLength(i) == BitLen(WAdd(WMul(3, i), 1)) \div 2

\* (bits.Len64(3*i + 1) - 1) / 2, the division truncating towards zero.
ZoomFromHilbertTileID(i) ==
    IF BitLen(WAdd(WMul(3, i), 1)) = 0 THEN 0
    ELSE (BitLen(WAdd(WMul(3, i), 1)) - 1) \div 2

\* The loop of ZXYFromHilbertTileID: a runs from 0 to z - 1.
RECURSIVE FromHilbertFrom(_, _, _, _, _)
FromHilbertFrom(a, z, t, x, y) ==
    IF a >= z THEN <<z, x, y>>
    ELSE LET s == Shl(1, a)
             rx == BitAnd(Shr(t, 1), 1)
             ry == BitXor(BitAnd(t, 1), rx)
             rot == rotate(s, x, y, rx, ry)
         IN  FromHilbertFrom(a + 1, z, Shr(t, 2),
                             WAdd(rot[1], WMul(rx, s)), WAdd(rot[2], WMul(ry, s)))

ZXYFromHilbertTileID(i) ==
    IF i >= invalidTileID
    THEN [zxy |-> <<0, 0, 0>>, err |-> "tile zoom exceeds 64-bit limit"]
    ELSE IF ZoomFromHilbertTileID(i) > MaxZ
    THEN [zxy |-> <<0, 0, 0>>, err |-> "tile zoom level exceeds maximum"]
    ELSE [zxy |-> FromHilbertFrom(
                      0, ZoomFromHilbertTileID(i),
                      WSub(i, WSub(Shl(1, 2 * ZoomFromHilbertTileID(i)), 1) \div 3), 0, 0),
          err |-> ""]

(***************************************************************************)
(* FastZXYfromHilbertTileID.  The zoom loop compares 1 << 2(z+1) with      *)
(* 3*tileID + 1; once the shift reaches the word size the left side is 0   *)
(* and the loop cannot end: the result then says that the call hangs.      *)
(* lutState is kept as two 16-bit halves, like lut1 and lut2.              *)
(***************************************************************************)
LutX == 37740
LutY == 14790
LutStateHi == 15979
LutStateLo == 38081

RECURSIVE FastZoomFrom(_, _)
FastZoomFrom(tileID, z) ==
    IF 2 * (z + 1) >= HilbertBits THEN -1
    ELSE IF Shl(1, 2 * (z + 1)) <= WAdd(WMul(3, tileID), 1)
    THEN FastZoomFrom(tileID, z + 1)
    ELSE z

RECURSIVE FastFromHilbertFrom(_, _, _, _, _)
FastFromHilbertFrom(i, code, state, x, y) ==
    IF i = 0 THEN <<x, y>>
    ELSE LET row == BitOr(Shl(state, 2), BitAnd(Shr(code, i - 2), 3)) IN
         FastFromHilbertFrom(i - 2, code, Lookup2(LutStateHi, LutStateLo, 2 * row),
                             BitOr(Shl(x, 1), Bit(LutX, row)),
                             BitOr(Shl(y, 1), Bit(LutY, row)))

FastDecodeAtZoom(tileID, z) ==
    IF z < 0
    THEN [zxy |-> <<0, 0, 0>>, err |-> "", hangs |-> TRUE]
    ELSE [zxy |-> <<z>> \o FastFromHilbertFrom(
                               2 * z, WSub(tileID, WSub(Shl(1, 2 * z), 1) \div 3), 0, 0, 0),
          err |-> "", hangs |-> FALSE]

FastZXYfromHilbertTileID(tileID) ==
    IF tileID >= invalidTileID
    THEN [zxy |-> <<0, 0, 0>>, err |-> "tile zoom exceeds 64-bit limit", hangs |-> FALSE]
    ELSE FastDecodeAtZoom(tileID, FastZoomFrom(tileID, 0))

(***************************************************************************)
(* Archives.  An archive is described by the kinds of its root directory   *)
(* and of the leaf directories A, B (C is fixed), its codecs and its       *)
(* reader; ArchiveFile lays the bytes out as the format does: the header   *)
(* region, the root directory, the leaf section (A, B, C), the tile data.  *)
(* Every leaf directory has one entry, so all leaves have the same size.   *)
(***************************************************************************)
HeaderSizeBytes == 127

Compress(codec, b) == IF codec = CompressionGZIP THEN Gzip(b) ELSE b

LeafSize(ic) == Len(Compress(ic, <<1, 0, 0, 0, 0>>))

TilePayloads == <<(<<7, 7>>), (<<9>>)>>

TileStored(tc, n) == Compress(tc, TilePayloads[n])

TileAt(tc, n) == IF n = 1 THEN 0 ELSE Len(TileStored(tc, 1))

TileEntry(tid, run, tc, n) ==
    [TileID |-> tid, Offset |-> TileAt(tc, n), Length |-> Len(TileStored(tc, n)),
     RunLength |-> run]

\* A leaf pointer to the leaf in the given slot (0 = A, 1 = B, 2 = C).
LeafPointer(tid, ic, slot) ==
    [TileID |-> tid, Offset |-> slot * LeafSize(ic), Length |-> LeafSize(ic), RunLength |-> 0]

RootKinds == {"tile+leaf", "leaf", "run", "empty", "absent"}
LeafAKinds == {"tile", "toB", "self", "late", "eof", "zero", "hollow"}
LeafBKinds == {"tile", "toA", "toC", "late"}

RootEntries(a) ==
    CASE a.root = "tile+leaf" -> <<TileEntry(1, 1, a.tc, 1), LeafPointer(2, a.ic, 0)>>
      [] a.root = "leaf" -> <<LeafPointer(0, a.ic, 0)>>
      [] a.root = "run" -> <<TileEntry(2, 2, a.tc, 1)>>
      [] a.root = "empty" -> <<>>
      [] a.root = "absent" -> <<>>

LeafAEntries(a) ==
    CASE a.la = "tile" -> <<TileEntry(1, 4, a.tc, 2)>>
      [] a.la = "toB" -> <<LeafPointer(1, a.ic, 1)>>
      [] a.la = "self" -> <<LeafPointer(1, a.ic, 0)>>
      [] a.la = "late" -> <<TileEntry(4, 20, a.tc, 1)>>
      [] a.la = "eof" -> <<[TileID |-> 1, Offset |-> 100, Length |-> 5, RunLength |-> 0]>>
      [] a.la = "zero" -> <<[TileID |-> 1, Offset |-> 0, Length |-> 0, RunLength |-> 0]>>
      [] a.la = "hollow" -> <<[TileID |-> 1, Offset |-> 0, Length |-> 0, RunLength |-> 4]>>

LeafBEntries(a) ==
    CASE a.lb = "tile" -> <<TileEntry(1, 20, a.tc, 2)>>
      [] a.lb = "toA" -> <<LeafPointer(1, a.ic, 0)>>
      [] a.lb = "toC" -> <<LeafPointer(1, a.ic, 2)>>
      [] a.lb = "late" -> <<TileEntry(6, 20, a.tc, 1)>>

LeafCEntries(a) == <<TileEntry(1, 20, a.tc, 1)>>

\* An "absent" root is a header whose RootLength is 0.
RootBytes(a) ==
    IF a.root = "absent" THEN <<>> ELSE Compress(a.ic, Serialize(RootEntries(a)))

LeafBytes(a) ==
    Compress(a.ic, Serialize(LeafAEntries(a)))
    \o Compress(a.ic, Serialize(LeafBEntries(a)))
    \o Compress(a.ic, Serialize(LeafCEntries(a)))

ArchiveFile(a) ==
    [i \in Range1(HeaderSizeBytes) |-> 0] \o RootBytes(a) \o LeafBytes(a)
    \o TileStored(a.tc, 1) \o TileStored(a.tc, 2)

\* The header of the archive, as Source.Header() hands it to the repository.
HeaderV3(a, rootLength, leafLength) ==
    [Etag |-> a.etag,
     RootOffset |-> HeaderSizeBytes,
     RootLength |-> rootLength,
     LeafDirectoryOffset |-> HeaderSizeBytes + rootLength,
     TileDataOffset |-> HeaderSizeBytes + rootLength + leafLength,
     InternalCompression |-> a.ic,
     TileCompression |-> a.tc,
     MinZoom |-> a.zoom[1],
     MaxZoom |-> a.zoom[2]]

Header(a) == HeaderV3(a, Len(RootBytes(a)), Len(LeafBytes(a)))

\* NewSource: the reader over the archive's bytes and its header.
NewSource(a) == [reader |-> a.reader, file |-> ArchiveFile(a), header |-> Header(a)]

\* The archives of the model: every shape of the directory tree (a leaf that
\* no pointer reaches has one kind only), under four pairs of codecs.
Codecs ==
    {<<CompressionNone, CompressionNone>>, <<CompressionGZIP, CompressionGZIP>>,
     <<CompressionNone, CompressionGZIP>>, <<CompressionBrotli, CompressionNone>>}

Archives ==
    {a \in [root : RootKinds, la : LeafAKinds, lb : LeafBKinds,
            ic : {CompressionNone, CompressionGZIP, CompressionBrotli},
            tc : {CompressionNone, CompressionGZIP},
            zoom : {<<1, 2>>}, reader : {"file", "s3"}, etag : {<<"e">>}] :
        /\ <<a.ic, a.tc>> \in Codecs
        /\ a.root \in {"run", "empty", "absent"} => a.la = "tile"
        /\ a.la # "toB" => a.lb = "tile"}

(***************************************************************************)
(* The directory cache (Cacher) as a map from keys to directories, and     *)
(* Repository.DirectoryAt as one caller alone runs it: cache lookup, then  *)
(* the single-flight function (re-check, NewDirectory), the key stamp and  *)
(* the best-effort Set, which the cache admits or rejects.                 *)
(***************************************************************************)
EmptyCache == [k \in {} |-> EmptyDirectory]

CacheSet(c, key, dir) == [k \in DOMAIN c \cup {key} |-> IF k = key THEN dir ELSE c[k]]

\* A DirectoryAt that hands the directory to the cache before the key stamp.
StampAfterSet(c, key, nd, admit) ==
    IF nd.err # Nil
    THEN [dir |-> EmptyDirectory, err |-> nd.err, cache |-> c, loaded |-> TRUE,
          open |-> nd.open]
    ELSE [dir |-> [nd.dir EXCEPT !.key = key], err |-> Nil,
          cache |-> IF admit THEN CacheSet(c, key, nd.dir) ELSE c,
          loaded |-> TRUE, open |-> nd.open]

\* A DirectoryAt that fails when the cache rejects the Set.
StampAndSetOrFail(c, key, nd, admit) ==
    IF nd.err # Nil \/ ~admit
    THEN [dir |-> EmptyDirectory,
          err |-> IF nd.err # Nil THEN nd.err ELSE Errorf("caching directory", ""),
          cache |-> c, loaded |-> TRUE, open |-> nd.open]
    ELSE [dir |-> [nd.dir EXCEPT !.key = key], err |-> Nil,
          cache |-> CacheSet(c, key, [nd.dir EXCEPT !.key = key]),
          loaded |-> TRUE, open |-> nd.open]

\* DirectoryAt after the single-flight call returned nd: the error, or the
\* key stamp and the Set.
StampAndSet(c, key, nd, admit) ==
    IF nd.err # Nil
    THEN [dir |-> EmptyDirectory, err |-> nd.err, cache |-> c, loaded |-> TRUE,
          open |-> nd.open]
    ELSE [dir |-> [nd.dir EXCEPT !.key = key], err |-> Nil,
          cache |-> IF admit THEN CacheSet(c, key, [nd.dir EXCEPT !.key = key]) ELSE c,
          loaded |-> TRUE, open |-> nd.open]

DirectoryAtKey(c, key, header, reader, file, offset, length, canceled, ioOk, admit) ==
    IF key \in DOMAIN c
    THEN [dir |-> c[key], err |-> Nil, cache |-> c, loaded |-> FALSE, open |-> 0]
    ELSE StampAndSet(c, key,
                     NewDirectory(header, reader, file, offset, length, canceled, ioOk),
                     admit)

DirectoryAt(c, header, reader, file, offset, length, canceled, ioOk, admit) ==
    DirectoryAtKey(c, buildCacheKey(header.Etag, offset, length), header, reader, file,
                   offset, length, canceled, ioOk, admit)

\* A zoom guard that joins the two comparisons with "and".
ZoomBelowAndAbove(header, z) == z < header.MinZoom /\ z > header.MaxZoom

\* Source.Tile's zoom guard.
ZoomOutOfRange(header, z) == z < header.MinZoom \/ z > header.MaxZoom

directoryMaxDepth == 3

\* A loop that runs one round more.
LoopEndsLate(depth) == depth = directoryMaxDepth + 1

\* "for range directoryMaxDepth": the loop ends after this many rounds.
LoopEnds(depth) == depth = directoryMaxDepth

\* A not-found lookup reported as an error.
NotFoundError == [data |-> <<>>, err |-> Errorf("tile not found", "")]

\* "if entry == nil { return nil, nil }"
NotFound == [data |-> <<>>, err |-> Nil]

\* A leaf range counted from the tile data section.
LeafOffsetInTileData(header, e) == (header.TileDataOffset + e.Offset) % U64

\* The range of the leaf directory a leaf pointer names (uint64 arithmetic).
LeafOffset(header, e) == (header.LeafDirectoryOffset + e.Offset) % U64

\* The range of the tile body a tile entry names (uint64 arithmetic).
TileOffset(header, e) == (header.TileDataOffset + e.Offset) % U64

\* Repository.readTileBytes: ReadRange, then io.ReadAll of the range stream.
readTileBytes(header, reader, file, offset, length, canceled, ioOk) ==
    LET rr == ReadRange(reader, file, offset, length, canceled, ioOk) IN
    IF rr.err # ""
    THEN [data |-> <<>>, err |-> Errorf("", rr.err), open |-> 0]
    ELSE [data |-> rr.stream, err |-> Nil, open |-> 0]

(***************************************************************************)
(* Metadata.ReadFrom: ReadRange over the metadata section, a deferred      *)
(* Close of the range stream, decompress, ReadAll, json.Unmarshal.  Over   *)
(* the bytes used here the only well-formed document is "{}".              *)
(***************************************************************************)
JsonObject == <<123, 125>>

Unmarshal(data) == IF data = JsonObject THEN "" ELSE "invalid JSON"

MetadataFromStream(header, stream) ==
    IF Decompress(stream, header.InternalCompression).err # ""
    THEN [err |-> Errorf("decompressing metadata",
                         Decompress(stream, header.InternalCompression).err),
          open |-> 0, meta |-> <<>>]
    ELSE IF Unmarshal(Decompress(stream, header.InternalCompression).data) # ""
    THEN [err |-> Errorf("unmarshalling metadata", "invalid JSON"), open |-> 0,
          meta |-> <<>>]
    ELSE [err |-> Nil, open |-> 0,
          meta |-> Decompress(stream, header.InternalCompression).data]

MetadataReadFrom(header, reader, file, canceled, ioOk) ==
    LET rr == ReadRange(reader, file, header.MetadataOffset, header.MetadataLength,
                        canceled, ioOk) IN
    IF rr.err # ""
    THEN [err |-> Errorf("reading metadata range", rr.err), open |-> 0, meta |-> <<>>]
    ELSE MetadataFromStream(header, rr.stream)

VARIABLES dirSt, arc, cache, tl, th, sg, hist, pure

vars == <<dirSt, arc, cache, tl, th, sg, hist, pure>>

\* The callers of DirectoryAt, the single-flight group and the history, and
\* the call of a function that the specifications of single functions use.
callVars == <<th, sg, hist, pure>>

\* The state of the repository and its callers.
repoVars == <<dirSt, arc, cache, tl, th, sg, hist>>

IdlePure == [pc |-> "idle"]

NumThreads == 2

Threads == 1..NumThreads

NoResult == [dir |-> EmptyDirectory, err |-> Nil]

IdleThread ==
    [pc |-> "idle", srcs |-> {1}, src |-> 1, off |-> 0, len |-> 0, key |-> <<>>,
     canceled |-> FALSE, aborted |-> FALSE, leader |-> 0, stream |-> <<>>, res |-> NoResult, ret |-> NoResult]

EmptyGroup == [k \in {} |-> 0]

NoHistory == [loads |-> [k \in {} |-> 0], lossy |-> FALSE, failed |-> FALSE]

IdleDir == [pc |-> "idle", ents |-> <<>>, wire |-> <<>>,
            dec |-> [entries |-> <<>>, err |-> [field |-> "none", at |-> 0, cause |-> ""]],
            target |-> 0, found |-> 0]

IdleArchive ==
    NewSource([root |-> "empty", la |-> "tile", lb |-> "tile", ic |-> CompressionNone,
               tc |-> CompressionNone, zoom |-> <<1, 2>>, reader |-> "file",
               etag |-> <<"e">>])

NoReturn == [data |-> <<>>, err |-> Nil]

IdleTile ==
    [pc |-> "idle", req |-> <<0, 0, 0>>, tileId |-> 0, dO |-> 0, dS |-> 0,
     depth |-> 0, dir |-> EmptyDirectory, ent |-> ZeroEntry, ret |-> NoReturn, log |-> <<>>,
     reads |-> <<>>]

(***************************************************************************)
(* SpecDir: the directory codec and lookup on bounded inputs.              *)
(***************************************************************************)
EntriesOver(tids, runs, lens, offs) ==
    [TileID : tids, Offset : offs, Length : lens, RunLength : runs]

ListsOver(S) == UNION {[Range1(n) -> S] : n \in 0..MaxEntries}

Nondecreasing(e) == \A i \in 1..(Len(e) - 1) : e[i].TileID <= e[i + 1].TileID

\* Inputs that exercise the offsets: propagation, chains, two-byte varints.
CodecInputs ==
    {e \in ListsOver(EntriesOver({0, 3, 254}, {1}, {0, 1}, {0, 1, 254, 255})) :
        Nondecreasing(e)}

\* Inputs that exercise the lookup: any order of tile ids, leaf pointers, runs.
LookupInputs == ListsOver(EntriesOver({0, 3, 4, 254}, {0, 1, 2}, {1}, {0}))

\* Inputs whose wire run lengths reach and pass the width of Entry.RunLength.
WideRunInputs == ListsOver(EntriesOver({3}, {U32 - 1, U32, U32 + 1, U64 - 1}, {1}, {0}))

\* Wire values at the edges of the offsets, written as the entries Serialize
\* turns into them: a stored offset 0 at the first entry (offset -1), and a
\* stored 0 after an entry that ends at 2^64 (offset 2^64).
EdgeOffsetInputs ==
    {<<[TileID |-> 3, Offset |-> -1, Length |-> 1, RunLength |-> 1]>>,
     <<[TileID |-> 3, Offset |-> U64 - 2, Length |-> 2, RunLength |-> 1],
       [TileID |-> 4, Offset |-> U64, Length |-> 1, RunLength |-> 1]>>,
     <<[TileID |-> 3, Offset |-> U64 - 2, Length |-> 1, RunLength |-> 1],
       [TileID |-> 4, Offset |-> U64 - 1, Length |-> 1, RunLength |-> 1]>>}

Targets == {0, 2, 3, 4, 5, 6, 254, 255}

NoDecode == [entries |-> <<>>, err |-> [field |-> "none", at |-> 0, cause |-> ""]]

DirInit ==
    /\ arc = IdleArchive
    /\ cache = EmptyCache
    /\ tl = IdleTile
    /\ th = [t \in Threads |-> IdleThread]
    /\ sg = EmptyGroup
    /\ hist = NoHistory
    /\ pure = IdlePure
    /\ \E e \in CodecInputs \cup LookupInputs \cup WideRunInputs \cup EdgeOffsetInputs :
        dirSt = [pc |-> "input", ents |-> e, wire |-> Serialize(e),
                 dec |-> NoDecode, target |-> 0, found |-> 0]

\* Directory.deserialize on the wire bytes.
Deserialize ==
    /\ dirSt.pc = "input"
    /\ dirSt' = [dirSt EXCEPT !.pc = "decoded", !.dec = readEntries(dirSt.wire)]
    /\ UNCHANGED <<arc, cache, tl>>
    /\ UNCHANGED callVars

\* Directory.FindTile on the decoded directory.
Find ==
    /\ dirSt.pc \in {"decoded", "found"}
    /\ dirSt.dec.err = NoErr
    /\ \E t \in Targets :
        dirSt' = [dirSt EXCEPT !.pc = "found", !.target = t,
                               !.found = FindTile(dirSt.dec.entries, t)]
    /\ UNCHANGED <<arc, cache, tl>>
    /\ UNCHANGED callVars

DirNext == Deserialize \/ Find

SpecDir == DirInit /\ [][DirNext]_vars

(***************************************************************************)
(* SpecTile: Source.Tile calls, one after the other, on one archive and    *)
(* one repository.  A call is the zoom guard and the tile id (TileCall),   *)
(* then up to directoryMaxDepth rounds of DirectoryAt (WalkDirectoryAt)    *)
(* and FindTile (WalkFindTile), then the tile read (WalkReadTile).  log    *)
(* lists, for the current call, the DirectoryAt calls, the ReadRange calls *)
(* and the lookups in the order they happen.                               *)
(***************************************************************************)
Requests ==
    {<<0, 0, 0>>, <<1, 0, 0>>, <<1, 0, 1>>, <<1, 1, 1>>, <<1, 1, 0>>, <<2, 0, 0>>,
     <<2, 1, 1>>, <<3, 0, 0>>, <<1, 2, 0>>}

Event(op, offset, length, kind) == [op |-> op, off |-> offset, len |-> length, kind |-> kind]

TileInit ==
    /\ dirSt = IdleDir
    /\ \E a \in Archives : arc = NewSource(a)
    /\ cache = EmptyCache
    /\ tl = IdleTile
    /\ th = [t \in Threads |-> IdleThread]
    /\ sg = EmptyGroup
    /\ hist = NoHistory
    /\ pure = IdlePure

TileReturn(data, err, log, reads) ==
    tl' = [tl EXCEPT !.pc = "done", !.ret = [data |-> data, err |-> err], !.log = log,
                     !.reads = reads]

\* The read of the file or the GetObject request that a call of ReadRange
\* issues, if it issues one.
IssuedRead(called, reader, file, offset, length) ==
    IF called /\ ReadRange(reader, file, offset, length, FALSE, TRUE).io
    THEN <<[off |-> offset, len |-> length]>> ELSE <<>>

TileCall ==
    /\ tl.pc \in {"idle", "done"}
    /\ \E req \in Requests :
        LET z == req[1]
            id == FastZXYToHilbertTileID(req[1], req[2], req[3])
            t == [tl EXCEPT !.req = req, !.log = <<>>, !.reads = <<>>, !.ret = NoReturn,
                            !.depth = 0, !.dir = EmptyDirectory, !.ent = ZeroEntry,
                            !.tileId = 0, !.dO = 0, !.dS = 0]
        IN  IF ZoomOutOfRange(arc.header, z)
            THEN tl' = [t EXCEPT !.pc = "done",
                                 !.ret = [data |-> <<>>, err |-> Errorf("invalid zoom", "")]]
            ELSE IF id.err # ""
            THEN tl' = [t EXCEPT !.pc = "done",
                                 !.ret = [data |-> <<>>,
                                          err |-> Errorf("resolving hilbert tile id", "")]]
            ELSE tl' = [t EXCEPT !.pc = "dir", !.tileId = id.id,
                                 !.dO = arc.header.RootOffset,
                                 !.dS = arc.header.RootLength]
    /\ UNCHANGED <<dirSt, arc, cache>>
    /\ UNCHANGED callVars

WalkDirectoryAt ==
    /\ tl.pc = "dir"
    /\ \E ioOk \in BOOLEAN, admit \in BOOLEAN :
       \E r \in {DirectoryAt(cache, arc.header, arc.reader, arc.file,
                              tl.dO, tl.dS, FALSE, ioOk, admit)} :
        LET log == tl.log \o <<Event("DirectoryAt", tl.dO, tl.dS,
                                      IF r.loaded THEN "miss" ELSE "hit")>>
                   \o (IF r.loaded THEN <<Event("ReadRange", tl.dO, tl.dS, "dir")>>
                       ELSE <<>>)
            reads == tl.reads \o IssuedRead(r.loaded, arc.reader, arc.file, tl.dO, tl.dS)
        IN  /\ cache' = r.cache
            /\ IF r.err # Nil
               THEN TileReturn(<<>>, r.err, log, reads)
               ELSE tl' = [tl EXCEPT !.pc = "find", !.dir = r.dir, !.log = log,
                                     !.reads = reads]
    /\ UNCHANGED <<dirSt, arc>>
    /\ UNCHANGED callVars

WalkFindTile ==
    /\ tl.pc = "find"
    /\ LET i == FindTile(tl.dir.entries, tl.tileId) IN
        IF i = 0
        THEN TileReturn(NotFound.data, NotFound.err,
                        tl.log \o <<Event("FindTile", 0, 0, "nil")>>, tl.reads)
        ELSE LET e == tl.dir.entries[i] IN
             IF e.RunLength = 0
             THEN LET log == tl.log \o <<Event("FindTile", e.Offset, e.Length, "leaf")>> IN
                  IF LoopEnds(tl.depth + 1)
                  THEN TileReturn(<<>>, Errorf("maximum directory depth exceeded", ""), log,
                                  tl.reads)
                  ELSE tl' = [tl EXCEPT !.pc = "dir", !.depth = @ + 1, !.log = log,
                                        !.dO = LeafOffset(arc.header, e),
                                        !.dS = e.Length]
             ELSE tl' = [tl EXCEPT !.pc = "tile", !.ent = e,
                                   !.log = @ \o <<Event("FindTile", e.Offset, e.Length, "tile")>>]
    /\ UNCHANGED <<dirSt, arc, cache>>
    /\ UNCHANGED callVars

WalkReadTile ==
    /\ tl.pc = "tile"
    /\ \E ioOk \in BOOLEAN :
        LET offset == TileOffset(arc.header, tl.ent)
            r == readTileBytes(arc.header, arc.reader, arc.file, offset,
                               tl.ent.Length, FALSE, ioOk)
        IN  TileReturn(r.data, r.err,
                       tl.log \o <<Event("ReadRange", offset, tl.ent.Length, "tile")>>,
                       tl.reads \o IssuedRead(TRUE, arc.reader, arc.file, offset,
                                              tl.ent.Length))
    /\ UNCHANGED <<dirSt, arc, cache>>
    /\ UNCHANGED callVars

\* Repository.Flush between two steps of a call, or between calls.
TileFlush ==
    /\ cache # EmptyCache
    /\ cache' = EmptyCache
    /\ UNCHANGED <<dirSt, arc, tl>>
    /\ UNCHANGED callVars

TileNext == TileCall \/ WalkDirectoryAt \/ WalkFindTile \/ WalkReadTile \/ TileFlush

SpecTile == TileInit /\ [][TileNext]_vars

(***************************************************************************)
(* The header codec.  A uint64 is kept as its four 16-bit limbs, least     *)
(* significant first; an int32 is the signed value of its two limbs.       *)
(* Byte i of the header (counted from 0) is element i + 1 of the sequence. *)
(***************************************************************************)
Magic == <<80, 77, 84, 105, 108, 101, 115>>

\* A read that takes the eight bytes most significant first.
Uint64BigEndian(d, at) == [k \in 1..4 |-> d[at + 10 - 2 * k] + 256 * d[at + 9 - 2 * k]]

\* binary.LittleEndian.Uint64(d[at:at+8])
Uint64(d, at) == [k \in 1..4 |-> d[at + 2 * k - 1] + 256 * d[at + 2 * k]]

\* binary.LittleEndian.PutUint64
PutUint64(v) ==
    [i \in 1..8 |-> IF i % 2 = 1 THEN v[(i + 1) \div 2] % 256 ELSE v[i \div 2] \div 256]

\* int32(binary.LittleEndian.Uint32(d[at:at+4]))
Int32(d, at) ==
    (IF d[at + 4] >= 128 THEN d[at + 3] + 256 * d[at + 4] - 65536
     ELSE d[at + 3] + 256 * d[at + 4]) * 65536
    + d[at + 1] + 256 * d[at + 2]

Zero64 == <<0, 0, 0, 0>>

\* HeaderV3{}
ZeroHeader ==
    [Etag |-> <<>>, SpecVersion |-> 0, RootOffset |-> Zero64, RootLength |-> Zero64,
     MetadataOffset |-> Zero64, MetadataLength |-> Zero64,
     LeafDirectoryOffset |-> Zero64, LeafDirectoryLength |-> Zero64,
     TileDataOffset |-> Zero64, TileDataLength |-> Zero64,
     AddressedTilesCount |-> Zero64, TileEntriesCount |-> Zero64,
     TileContentsCount |-> Zero64, Clustered |-> FALSE, InternalCompression |-> 0,
     TileCompression |-> 0, TileType |-> 0, MinZoom |-> 0, MaxZoom |-> 0,
     MinLonE7 |-> 0, MinLatE7 |-> 0, MaxLonE7 |-> 0, MaxLatE7 |-> 0,
     CenterZoom |-> 0, CenterLonE7 |-> 0, CenterLatE7 |-> 0]

\* HeaderV3.version
HeaderVersion(b) ==
    IF b \in {1, 2} THEN [ver |-> 0, err |-> "spec version is unsupported"]
    ELSE IF b = 3 THEN [ver |-> 3, err |-> ""]
    ELSE [ver |-> 0, err |-> "unknown version"]

\* HeaderV3.deserialize on the 127 bytes d.
HeaderDeserialize(h, d) ==
    IF SubSeq(d, 1, 7) # Magic
    THEN [h |-> h, err |-> "magic number not detected"]
    ELSE IF HeaderVersion(d[8]).err # ""
    THEN [h |-> h, err |-> "unsupported spec version"]
    ELSE [h |-> [h EXCEPT !.SpecVersion = HeaderVersion(d[8]).ver,
                          !.RootOffset = Uint64(d, 8),
                          !.RootLength = Uint64(d, 16),
                          !.MetadataOffset = Uint64(d, 24),
                          !.MetadataLength = Uint64(d, 32),
                          !.LeafDirectoryOffset = Uint64(d, 40),
                          !.LeafDirectoryLength = Uint64(d, 48),
                          !.TileDataOffset = Uint64(d, 56),
                          !.TileDataLength = Uint64(d, 64),
                          !.AddressedTilesCount = Uint64(d, 72),
                          !.TileEntriesCount = Uint64(d, 80),
                          !.TileContentsCount = Uint64(d, 88),
                          !.Clustered = (d[97] = 1),
                          !.InternalCompression = d[98],
                          !.TileCompression = d[99],
                          !.TileType = d[100],
                          !.MinZoom = d[101],
                          !.MaxZoom = d[102],
                          !.MinLonE7 = Int32(d, 102),
                          !.MinLatE7 = Int32(d, 106),
                          !.MaxLonE7 = Int32(d, 110),
                          !.MaxLatE7 = Int32(d, 114),
                          !.CenterZoom = d[119],
                          !.CenterLonE7 = Int32(d, 119),
                          !.CenterLatE7 = Int32(d, 123)],
          err |-> ""]

\* NewHeader on a reader that supplies the bytes r: io.ReadFull of 127 bytes,
\* then deserialize into a new header.
NewHeader(r) ==
    IF Len(r) < HeaderSizeBytes
    THEN [h |-> ZeroHeader, err |-> "reading header"]
    ELSE HeaderDeserialize(ZeroHeader, SubSeq(r, 1, HeaderSizeBytes))

\* A ReadFrom that leaves an absent etag empty.
HeaderAssignNoEtag(h, nh, etag) ==
    IF nh.err # "" THEN [h |-> h, err |-> "reading header"]
    ELSE [h |-> nh.h, err |-> ""]

\* HeaderV3.ReadFrom after ReadRange returned rr: the new header, given a
\* fresh etag, replaces the receiver only when everything succeeded.
HeaderAssign(h, nh, etag) ==
    IF nh.err # "" THEN [h |-> h, err |-> "reading header"]
    ELSE [h |-> [nh.h EXCEPT !.Etag = IF nh.h.Etag = <<>> THEN etag ELSE @], err |-> ""]

HeaderReadFrom(h, rr, etag) ==
    IF rr.err # "" THEN [h |-> h, err |-> "reading header"]
    ELSE HeaderAssign(h, NewHeader(rr.stream), etag)

(***************************************************************************)
(* SpecHilbert: both encoders applied to a triple (z, x, y), then both     *)
(* decoders applied to the ids.  The triples are those of the zooms up to  *)
(* MaxZoomIn, with x and y up to 2^z (one past the last valid column).     *)
(***************************************************************************)
MaxZoomIn == 4

\* The last zoom whose ids fit the word: 31 for the 64-bit word.
TopZoom == HilbertBits \div 2 - 1

HilbertInit ==
    /\ dirSt = IdleDir
    /\ arc = IdleArchive
    /\ cache = EmptyCache
    /\ tl = IdleTile
    /\ th = [t \in Threads |-> IdleThread]
    /\ sg = EmptyGroup
    /\ hist = NoHistory
    /\ \/ \E z \in 0..MaxZoomIn :
          \E x \in 0..(2 ^ z), y \in 0..(2 ^ z) :
           pure = [pc |-> "zxy", z |-> z, x |-> x, y |-> y]
       \/ \E z \in 0..TopZoom :
          \E x \in {0, 1, 2 ^ z - 1}, y \in {0, 2, 2 ^ z - 1} :
           /\ x < 2 ^ z /\ y < 2 ^ z
           /\ pure = [pc |-> "fastzxy", z |-> z, x |-> x, y |-> y]

HilbertEncode ==
    /\ pure.pc = "zxy"
    /\ pure' = [pc |-> "id", z |-> pure.z, x |-> pure.x, y |-> pure.y,
                ref |-> ZXYToHilbertTileID(pure.z, pure.x, pure.y),
                fast |-> FastZXYToHilbertTileID(pure.z, pure.x, pure.y)]
    /\ UNCHANGED repoVars

HilbertDecode ==
    /\ pure.pc = "id"
    /\ pure.ref.err = "" /\ pure.fast.err = ""
    /\ pure' = [pc |-> "back", z |-> pure.z, x |-> pure.x, y |-> pure.y,
                ref |-> pure.ref, fast |-> pure.fast,
                refBack |-> ZXYFromHilbertTileID(pure.ref.id),
                fastBack |-> FastZXYfromHilbertTileID(pure.fast.id)]
    /\ UNCHANGED repoVars

\* The fast codec alone, on the triples of every zoom of the word.
FastEncode ==
    /\ pure.pc = "fastzxy"
    /\ pure' = [pc |-> "fastid", z |-> pure.z, x |-> pure.x, y |-> pure.y,
                fast |-> FastZXYToHilbertTileID(pure.z, pure.x, pure.y)]
    /\ UNCHANGED repoVars

FastDecode ==
    /\ pure.pc = "fastid"
    /\ pure.fast.err = ""
    /\ pure' = [pc |-> "fastback", z |-> pure.z, x |-> pure.x, y |-> pure.y,
                fast |-> pure.fast,
                fastBack |-> FastZXYfromHilbertTileID(pure.fast.id)]
    /\ UNCHANGED repoVars

HilbertNext == HilbertEncode \/ HilbertDecode \/ FastEncode \/ FastDecode

SpecHilbert == HilbertInit /\ [][HilbertNext]_vars

(***************************************************************************)
(* The range readers on their own, with the conversions of the code.  The  *)
(* repository holds two versions of each ReadRange: one returns the bytes  *)
(* (ReadAt or io.ReadFull into a buffer of the length asked for), the      *)
(* other a stream (a SectionReader, the response body) that the caller     *)
(* reads to its end.  Offsets and lengths are words of UintBits bits, and  *)
(* int64 is the signed word of the same width.  ReadRange above is the     *)
(* stream version on positions that the conversion to int64 leaves alone.  *)
(***************************************************************************)
\* int64(u) for a uint64 u, and the wrapping int64 arithmetic.
Int64(u) == IF (u % U64) > MaxInt64 THEN (u % U64) - U64 ELSE u % U64

\* os.File.ReadAt(buf, off) with len(buf) = n.
ReadAt(file, n, off, ioOk) ==
    IF off < 0 THEN [data |-> <<>>, err |-> "negative offset"]
    ELSE IF ~ioOk THEN [data |-> <<>>, err |-> "read failed"]
    ELSE IF off + n > Len(file)
    THEN [data |-> SubSeq(file, off + 1, Len(file)), err |-> "EOF"]
    ELSE [data |-> SubSeq(file, off + 1, off + n), err |-> ""]

\* The end of a ReadAt or ReadFull: an end of file that stands for a short
\* read is no error.
ClampEOF(r, eofs) ==
    IF r.err \in eofs THEN [data |-> r.data, err |-> ""]
    ELSE IF r.err # "" THEN [data |-> <<>>, err |-> r.err]
    ELSE r

\* FileRangeReader.ReadRange returning the bytes.
FileReadRange(file, offset, length, ioOk) ==
    IF length = 0 THEN [data |-> <<>>, err |-> "invalid ranger"]
    ELSE IF length > MaxInt64
    THEN [data |-> <<>>, err |-> "panic: makeslice: len out of range"]
    ELSE ClampEOF(ReadAt(file, length, Int64(offset), ioOk), {"EOF", "unexpected EOF"})

\* io.NewSectionReader(r, off, n): the limit of the section.
SectionLimit(off, n) ==
    IF off <= Int64(MaxInt64 - n) THEN Int64(n + off) ELSE MaxInt64

\* io.ReadAll of the section reader.
SectionReadAll(file, off, limit, ioOk) ==
    IF off >= limit THEN [data |-> <<>>, err |-> ""]
    ELSE ClampEOF(ReadAt(file, limit - off, off, ioOk), {"EOF"})

\* FileRangeReader.ReadRange returning a stream, read to its end.
FileStreamRange(file, offset, length, ioOk) ==
    IF length = 0 THEN [data |-> <<>>, err |-> "invalid ranger"]
    ELSE SectionReadAll(file, Int64(offset),
                        SectionLimit(Int64(offset), Int64(length)), ioOk)

\* bytesRange, fmt.Sprintf("bytes=%d-%d", offset, offset+length-1)
bytesRange(offset, length) ==
    <<"b", "y", "t", "e", "s", "=">> \o Decimal(offset) \o <<"-">>
    \o Decimal((offset + length - 1) % U64)

\* The two numbers of "bytes=first-last".
RangeFirstLast(r) ==
    LET dash == CHOOSE i \in 7..Len(r) : r[i] = "-" IN
    <<DecimalValue(SubSeq(r, 7, dash - 1)), DecimalValue(SubSeq(r, dash + 1, Len(r)))>>

\* GetObject on an object store that holds the object.  A store of the kind
\* "s3" answers a range that starts at or past the end of the object with the
\* error 416 and ignores a range whose end lies before its start; the store
\* of the tests ("mock") answers both with an empty body.
GetObject(object, first, last, kind, ioOk) ==
    IF ~ioOk THEN [body |-> <<>>, err |-> "GetObject failed"]
    ELSE IF last < first
    THEN [body |-> IF kind = "s3" THEN object ELSE <<>>, err |-> ""]
    ELSE IF first >= Len(object)
    THEN [body |-> <<>>, err |-> IF kind = "s3" THEN "416 InvalidRange" ELSE ""]
    ELSE [body |-> SubSeq(object, first + 1, Min(last + 1, Len(object))), err |-> ""]

GetObjectInput(offset, length) ==
    [Bucket |-> "bucket", Key |-> "key", Range |-> bytesRange(offset, length)]

\* io.ReadFull(body, buf) with len(buf) = n.
ReadFull(body, n) ==
    IF Len(body) >= n THEN [data |-> SubSeq(body, 1, n), err |-> ""]
    ELSE IF body = <<>> THEN [data |-> <<>>, err |-> "EOF"]
    ELSE [data |-> body, err |-> "unexpected EOF"]

\* S3RangeReader.ReadRange returning the bytes, after GetObject answered.
S3ReadBody(out, length) ==
    IF out.err # "" THEN [data |-> <<>>, err |-> out.err]
    ELSE IF length > MaxInt64
    THEN [data |-> <<>>, err |-> "panic: makeslice: len out of range"]
    ELSE ClampEOF(ReadFull(out.body, length), {"unexpected EOF"})

\* S3RangeReader.ReadRange returning the response body, read to its end.
S3StreamBody(out) ==
    IF out.err # "" THEN [data |-> <<>>, err |-> out.err]
    ELSE [data |-> out.body, err |-> ""]

\* S3RangeReader.ReadRange, both versions: the requests sent, and what the
\* caller gets.
S3ReadRange(object, offset, length, kind, ioOk) ==
    IF length = 0
    THEN [requests |-> <<>>, bytes |-> [data |-> <<>>, err |-> "invalid ranger"],
          stream |-> [data |-> <<>>, err |-> "invalid ranger"]]
    ELSE [requests |-> <<GetObjectInput(offset, length)>>,
          bytes |-> S3ReadBody(GetObject(object,
                                         RangeFirstLast(bytesRange(offset, length))[1],
                                         RangeFirstLast(bytesRange(offset, length))[2],
                                         kind, ioOk), length),
          stream |-> S3StreamBody(GetObject(object,
                                            RangeFirstLast(bytesRange(offset, length))[1],
                                            RangeFirstLast(bytesRange(offset, length))[2],
                                            kind, ioOk))]

(***************************************************************************)
(* SpecHeader: NewHeader on header bytes, and HeaderV3.ReadFrom on a       *)
(* source that holds them.  The bytes are written as the archive writer    *)
(* writes them, one of the uint64 fields holding a chosen value and field  *)
(* j, for every other j, the value j; then the magic, the version byte and *)
(* the length are varied.                                                  *)
(***************************************************************************)
U64Fields ==
    <<"RootOffset", "RootLength", "MetadataOffset", "MetadataLength",
      "LeafDirectoryOffset", "LeafDirectoryLength", "TileDataOffset", "TileDataLength",
      "AddressedTilesCount", "TileEntriesCount", "TileContentsCount">>

HeaderValues ==
    {Zero64, <<1000, 0, 0, 0>>, <<513, 1027, 1541, 2055>>, <<65535, 65535, 65535, 65535>>}

Magics == {Magic, <<73, 110, 118, 97, 108, 105, 100>>, <<80, 77, 84, 105, 108, 101, 122>>}

VersionBytes == {0, 1, 2, 3, 4, 255}

HeaderLengths == {0, 10, 126, 127, 130}

RECURSIVE PutFields(_, _)
PutFields(fields, j) ==
    IF j > Len(fields) THEN <<>> ELSE PutUint64(fields[j]) \o PutFields(fields, j + 1)

\* The 127 header bytes and three bytes of what follows them.
HeaderBytes(magic, ver, fields) ==
    magic \o <<ver>> \o PutFields(fields, 1)
    \o <<1, 2, 1, 1, 0, 14>>
    \o <<1, 0, 0, 128>> \o <<2, 0, 0, 0>> \o <<255, 255, 255, 127>> \o <<255, 255, 255, 255>>
    \o <<7>> \o <<3, 0, 0, 0>> \o <<4, 0, 0, 0>>
    \o <<9, 9, 9>>

\* A header read earlier, which a failing ReadFrom must leave as it is.
PriorHeader ==
    [ZeroHeader EXCEPT !.Etag = <<"k", "0">>, !.SpecVersion = 3,
                       !.RootOffset = <<127, 0, 0, 0>>, !.RootLength = <<5, 0, 0, 0>>]

HeaderInit ==
    /\ dirSt = IdleDir
    /\ arc = IdleArchive
    /\ cache = EmptyCache
    /\ tl = IdleTile
    /\ th = [t \in Threads |-> IdleThread]
    /\ sg = EmptyGroup
    /\ hist = NoHistory
    /\ \E k \in Range1(Len(U64Fields)), v \in HeaderValues, magic \in Magics,
          ver \in VersionBytes, n \in HeaderLengths, h \in {ZeroHeader, PriorHeader} :
       \E fields \in {[j \in Range1(Len(U64Fields)) |-> IF j = k THEN v ELSE <<j, 0, 0, 0>>]} :
        pure = [pc |-> "bytes", fields |-> fields, h |-> h,
                d |-> SubSeq(HeaderBytes(magic, ver, fields), 1, n)]

HeaderParse ==
    /\ pure.pc = "bytes"
    /\ \E reader \in {"file", "s3"}, ioOk \in BOOLEAN, etag \in {<<"k", "1">>, <<"k", "2">>} :
        pure' = [pc |-> "parsed", fields |-> pure.fields, h |-> pure.h, d |-> pure.d,
                 new |-> NewHeader(pure.d),
                 rf |-> HeaderReadFrom(pure.h,
                                       ReadRange(reader, pure.d, 0, HeaderSizeBytes,
                                                 FALSE, ioOk),
                                       etag)]
    /\ UNCHANGED repoVars

HeaderNext == HeaderParse

SpecHeader == HeaderInit /\ [][HeaderNext]_vars

(***************************************************************************)
(* SpecRange: one ReadRange on a file and on an object with the same       *)
(* bytes, by each reader in each of its versions.                          *)
(***************************************************************************)
RangeFiles == {<<>>, <<10, 11, 12>>, <<10, 11, 12, 13, 14>>}

RangeOffsets == {0, 1, 2, 3, 4, 5, 6, MaxInt64, MaxInt64 + 1, U64 - 2, U64 - 1}

RangeLengths == {0, 1, 2, 3, 5, 6, MaxInt64, MaxInt64 + 1, U64 - 1}

RangeInit ==
    /\ dirSt = IdleDir
    /\ arc = IdleArchive
    /\ cache = EmptyCache
    /\ tl = IdleTile
    /\ th = [t \in Threads |-> IdleThread]
    /\ sg = EmptyGroup
    /\ hist = NoHistory
    /\ \E file \in RangeFiles, offset \in RangeOffsets, length \in RangeLengths :
        pure = [pc |-> "range", file |-> file, offset |-> offset, length |-> length]

RangeRead ==
    /\ pure.pc = "range"
    /\ \E ioOk \in BOOLEAN, kind \in {"s3", "mock"} :
        pure' = [pc |-> "read", file |-> pure.file, offset |-> pure.offset,
                 length |-> pure.length, ioOk |-> ioOk, kind |-> kind,
                 fileBytes |-> FileReadRange(pure.file, pure.offset, pure.length, ioOk),
                 fileStream |-> FileStreamRange(pure.file, pure.offset, pure.length, ioOk),
                 s3 |-> S3ReadRange(pure.file, pure.offset, pure.length, kind, ioOk)]
    /\ UNCHANGED repoVars

RangeNext == RangeRead

SpecRange == RangeInit /\ [][RangeNext]_vars

(***************************************************************************)
(* SpecDecompress: Decompress on a stream that holds a payload, as it is   *)
(* or gzip-compressed, under every kind of compression tag.                *)
(***************************************************************************)
Payloads == UNION {[Range1(n) -> {0, 31, 139}] : n \in {0, 1, 2}}

CompressionTags ==
    {CompressionUnknown, CompressionNone, CompressionGZIP, CompressionBrotli,
     CompressionZstd, CompressionZstd + 1, U64 - 1}

DecompressInit ==
    /\ dirSt = IdleDir
    /\ arc = IdleArchive
    /\ cache = EmptyCache
    /\ tl = IdleTile
    /\ th = [t \in Threads |-> IdleThread]
    /\ sg = EmptyGroup
    /\ hist = NoHistory
    /\ \E b \in Payloads, tag \in CompressionTags, zipped \in BOOLEAN :
        pure = [pc |-> "stream", payload |-> b, tag |-> tag, zipped |-> zipped,
                input |-> IF zipped THEN Gzip(b) ELSE b]

DecompressCall ==
    /\ pure.pc = "stream"
    /\ pure' = [pc |-> "decompressed", payload |-> pure.payload, tag |-> pure.tag,
                zipped |-> pure.zipped, input |-> pure.input,
                out |-> Decompress(pure.input, pure.tag)]
    /\ UNCHANGED repoVars

DecompressNext == DecompressCall

SpecDecompress == DecompressInit /\ [][DecompressNext]_vars

(***************************************************************************)
(* SpecStreams: the three operations that open a range stream, applied to  *)
(* a section of a file under every codec tag, with either reader, with the *)
(* context canceled or not and the request failing or not.  The state      *)
(* records the error returned and the number of streams left open.         *)
(***************************************************************************)
StreamFiles ==
    {<<>>, <<0>>, <<31>>, <<1, 3>>, <<2, 1>>, <<255, 1>>, JsonObject, Gzip(JsonObject), Gzip(<<0>>),
     <<1, 3, 1, 1, 1>>, Gzip(<<1, 3, 1, 1, 1>>)}

StreamLengths == {0, 1, 2, 7}

StreamHeader(tag, offset, length) ==
    [InternalCompression |-> tag, MetadataOffset |-> offset, MetadataLength |-> length]

StreamsInit ==
    /\ dirSt = IdleDir
    /\ arc = IdleArchive
    /\ cache = EmptyCache
    /\ tl = IdleTile
    /\ th = [t \in Threads |-> IdleThread]
    /\ sg = EmptyGroup
    /\ hist = NoHistory
    /\ \E f \in StreamFiles, tag \in CompressionTags, reader \in {"file", "s3"},
          length \in StreamLengths :
        pure = [pc |-> "section", file |-> f, reader |-> reader,
                header |-> StreamHeader(tag, 0, length)]

StreamsReturn(op, r) ==
    pure' = [pc |-> "returned", file |-> pure.file, reader |-> pure.reader,
             header |-> pure.header, op |-> op, out |-> r]

StreamsDirectory ==
    /\ pure.pc \in {"section", "returned"}
    /\ \E canceled \in BOOLEAN, ioOk \in BOOLEAN :
        StreamsReturn("NewDirectory",
                      NewDirectory(pure.header, pure.reader, pure.file,
                                   pure.header.MetadataOffset,
                                   pure.header.MetadataLength, canceled, ioOk))
    /\ UNCHANGED repoVars

StreamsTile ==
    /\ pure.pc \in {"section", "returned"}
    /\ \E canceled \in BOOLEAN, ioOk \in BOOLEAN :
        StreamsReturn("readTileBytes",
                      readTileBytes(pure.header, pure.reader, pure.file,
                                    pure.header.MetadataOffset,
                                    pure.header.MetadataLength, canceled, ioOk))
    /\ UNCHANGED repoVars

StreamsMetadata ==
    /\ pure.pc \in {"section", "returned"}
    /\ \E canceled \in BOOLEAN, ioOk \in BOOLEAN :
        StreamsReturn("Metadata.ReadFrom",
                      MetadataReadFrom(pure.header, pure.reader, pure.file,
                                       canceled, ioOk))
    /\ UNCHANGED repoVars

StreamsNext == StreamsDirectory \/ StreamsTile \/ StreamsMetadata

SpecStreams == StreamsInit /\ [][StreamsNext]_vars

(***************************************************************************)
(* SpecSource: NewSource step by step (the header read, then the metadata  *)
(* read), and the calls on the Source it returns.  The state holds the     *)
(* Source's header and metadata, the ranges read during construction and   *)
(* what NewSource returned.  The repository behind Tile is the subject of  *)
(* SpecTile; here Tile is the zoom guard and the hand-over of a copy of    *)
(* the header.  The files keep their offsets and lengths in the low limb.  *)
(***************************************************************************)
MaxCalls == 2

\* The number a header field holds.
FieldValue(l) == IF l[2] = 0 /\ l[3] = 0 /\ l[4] = 0 THEN l[1] ELSE l[1] + 65536

SourceMetadata == {JsonObject, Gzip(JsonObject), Gzip(<<31>>)}

SourceFields(mlen) ==
    [j \in Range1(Len(U64Fields)) |->
        IF j = 3 THEN <<HeaderSizeBytes, 0, 0, 0>>
        ELSE IF j = 4 THEN <<mlen, 0, 0, 0>> ELSE <<j, 0, 0, 0>>]

SourceFile(magic, ver, hlen, meta, mlen) ==
    SubSeq(HeaderBytes(magic, ver, SourceFields(mlen)), 1, hlen)
    \o (IF hlen = HeaderSizeBytes THEN meta ELSE <<>>)

SourceInit ==
    /\ dirSt = IdleDir
    /\ arc = IdleArchive
    /\ cache = EmptyCache
    /\ tl = IdleTile
    /\ th = [t \in Threads |-> IdleThread]
    /\ sg = EmptyGroup
    /\ hist = NoHistory
    /\ \E magic \in {Magic, <<73, 110, 118, 97, 108, 105, 100>>}, ver \in {2, 3},
          hlen \in {HeaderSizeBytes - 1, HeaderSizeBytes}, meta \in SourceMetadata,
          mlen \in {0, 2, 4}, reader \in {"file", "s3"} :
        pure = [pc |-> "new", reader |-> reader,
                file |-> SourceFile(magic, ver, hlen, meta, mlen),
                header |-> ZeroHeader, meta |-> <<>>, log |-> <<>>, step |-> "",
                err |-> "", source |-> "none", built |-> <<>>, calls |-> <<>>]

SourceRead(what, rr, offset, length) ==
    IF rr.io THEN <<[what |-> what, off |-> offset, len |-> length]>> ELSE <<>>

\* NewSource up to and including s.header.ReadFrom.
SourceReadHeader ==
    /\ pure.pc = "new"
    /\ \E ioOk \in BOOLEAN, etag \in {<<"k", "1">>, <<"k", "2">>} :
       \E rr \in {ReadRange(pure.reader, pure.file, 0, HeaderSizeBytes, FALSE, ioOk)} :
       \E r \in {HeaderReadFrom(pure.header, rr, etag)} :
        pure' = [pure EXCEPT !.log = @ \o SourceRead("header", rr, 0, HeaderSizeBytes),
                             !.step = "header",
                             !.header = r.h,
                             !.err = r.err,
                             !.pc = IF r.err # "" THEN "failed" ELSE "header",
                             !.source = IF r.err # "" THEN "nil" ELSE @]
    /\ UNCHANGED repoVars

\* NewSource from s.meta.ReadFrom to its return.
SourceReadMeta ==
    /\ pure.pc = "header"
    /\ \E ioOk \in BOOLEAN :
       \E off \in {FieldValue(pure.header.MetadataOffset)},
          len \in {FieldValue(pure.header.MetadataLength)} :
       \E r \in {MetadataReadFrom(StreamHeader(pure.header.InternalCompression, off, len),
                                  pure.reader, pure.file, FALSE, ioOk)} :
        pure' = [pure EXCEPT !.log = @ \o SourceRead("metadata",
                                                     ReadRange(pure.reader, pure.file, off,
                                                               len, FALSE, ioOk),
                                                     off, len),
                             !.step = "metadata",
                             !.meta = r.meta,
                             !.err = IF r.err # Nil THEN r.err.op ELSE "",
                             !.pc = IF r.err # Nil THEN "failed" ELSE "ready",
                             !.source = IF r.err # Nil THEN "nil" ELSE "source",
                             !.built = IF r.err # Nil THEN @
                                       ELSE <<[header |-> pure.header, meta |-> r.meta]>>]
    /\ UNCHANGED repoVars

\* Source.Tile: the zoom guard, then Repository.Tile on s.Header().
SourceTile ==
    /\ pure.pc = "ready"
    /\ Len(pure.calls) < MaxCalls
    /\ \E z \in {0, 15} :
        pure' = [pure EXCEPT !.calls = @ \o <<[op |-> "Tile",
                                               out |-> IF ZoomOutOfRange(pure.header, z)
                                                       THEN <<"invalid zoom">>
                                                       ELSE <<"Repository.Tile", pure.header>>]>>]
    /\ UNCHANGED repoVars

\* Source.Header: a copy of *s.header.
SourceHeader ==
    /\ pure.pc = "ready"
    /\ Len(pure.calls) < MaxCalls
    /\ pure' = [pure EXCEPT !.calls = @ \o <<[op |-> "Header", out |-> <<pure.header>>]>>]
    /\ UNCHANGED repoVars

\* Source.Meta: a copy of *s.meta.
SourceMeta ==
    /\ pure.pc = "ready"
    /\ Len(pure.calls) < MaxCalls
    /\ pure' = [pure EXCEPT !.calls = @ \o <<[op |-> "Meta", out |-> <<pure.meta>>]>>]
    /\ UNCHANGED repoVars

SourceNext ==
    SourceReadHeader \/ SourceReadMeta \/ SourceTile \/ SourceHeader \/ SourceMeta

SpecSource == SourceInit /\ [][SourceNext]_vars

(***************************************************************************)
(* Spec: NumThreads callers run Repository.DirectoryAt at the same time on *)
(* one repository, each for the root range or the first leaf range.  Each  *)
(* caller goes through the steps of the code: the key and the first        *)
(* cache.Get (Call); sg.Do, where it becomes the leader for its key or     *)
(* waits for the leader in flight (Do); as leader the second cache.Get     *)
(* (Fn), then NewDirectory, which is ReadRange (LoadRead) and decompress   *)
(* and deserialize (LoadDecode); the end of the single-flight call, which  *)
(* removes the key from the group and hands the leader's result to the     *)
(* waiters (Leave); and the code after sg.Do: the error return, or the key *)
(* stamp, cache.Set and return (Post).  A caller's context is canceled at  *)
(* any moment (Cancel); the cache rejects a Set or evicts a key (Evict).   *)
(* hist counts the NewDirectory calls per key and notes whether the cache  *)
(* has rejected or evicted anything and whether a load has failed; a       *)
(* caller is marked aborted when its context is canceled during its load.  *)
(***************************************************************************)
Ranges(src) ==
    {<<src.header.RootOffset, src.header.RootLength>>,
     <<src.header.LeafDirectoryOffset, LeafSize(src.header.InternalCompression)>>}

\* The sources that call the repository: the first is the archive arc, the
\* second, where there is one, another archive with an etag of its own, read
\* through the same kind of reader, whose directories lie in the same ranges
\* with other entries.
PeerArchive(a) == [a EXCEPT !.la = "late", !.etag = <<"f">>]

SourceAt(i) == IF i = 1 THEN arc ELSE arc.peer

\* A group that never finds a call in flight.
NeverInFlight(g, key) == FALSE

\* singleflight: a call for the key is in flight.
InFlight(g, key) == key \in DOMAIN g

CountLoad(h, key) ==
    [h EXCEPT !.loads = [k \in DOMAIN h.loads \cup {key} |->
                             IF k = key
                             THEN (IF k \in DOMAIN h.loads THEN h.loads[k] ELSE 0) + 1
                             ELSE h.loads[k]]]

Init ==
    /\ dirSt = IdleDir
    /\ tl = IdleTile
    /\ cache = EmptyCache
    /\ th = [t \in Threads |-> IdleThread]
    /\ sg = EmptyGroup
    /\ hist = NoHistory
    /\ pure = IdlePure
    /\ \E a \in Archives :
        /\ a.root = "tile+leaf" /\ a.la = "tile" /\ a.tc = CompressionNone
        /\ arc = NewSource(a)

Call(t) ==
    /\ th[t].pc = "idle"
    /\ \E i \in th[t].srcs :
       \E rng \in Ranges(SourceAt(i)) :
       \E key \in {buildCacheKey(SourceAt(i).header.Etag, rng[1], rng[2])} :
        th' = [th EXCEPT ![t] =
                  IF key \in DOMAIN cache
                  THEN [@ EXCEPT !.pc = "done", !.src = i, !.off = rng[1], !.len = rng[2],
                                 !.key = key, !.ret = [dir |-> cache[key], err |-> Nil]]
                  ELSE [@ EXCEPT !.pc = "do", !.src = i, !.off = rng[1], !.len = rng[2],
                                 !.key = key]]
    /\ UNCHANGED <<pure, dirSt, arc, cache, tl, sg, hist>>

Do(t) ==
    /\ th[t].pc = "do"
    /\ IF InFlight(sg, th[t].key)
       THEN /\ th' = [th EXCEPT ![t].pc = "wait", ![t].leader = sg[th[t].key]]
            /\ sg' = sg
       ELSE /\ th' = [th EXCEPT ![t].pc = "fn"]
            /\ sg' = [k \in DOMAIN sg \cup {th[t].key} |->
                          IF k = th[t].key THEN t ELSE sg[k]]
    /\ UNCHANGED <<pure, dirSt, arc, cache, tl, hist>>

Fn(t) ==
    /\ th[t].pc = "fn"
    /\ th' = [th EXCEPT ![t] =
                 IF th[t].key \in DOMAIN cache
                 THEN [@ EXCEPT !.pc = "leave",
                                !.res = [dir |-> cache[th[t].key], err |-> Nil]]
                 ELSE [@ EXCEPT !.pc = "load"]]
    /\ UNCHANGED <<pure, dirSt, arc, cache, tl, sg, hist>>

LoadRead(t) ==
    /\ th[t].pc = "load"
    /\ \E ioOk \in BOOLEAN :
       \E rr \in {ReadRange(SourceAt(th[t].src).reader, SourceAt(th[t].src).file,
                            th[t].off, th[t].len, th[t].canceled, ioOk)} :
        /\ th' = [th EXCEPT ![t] =
                     IF rr.err # ""
                     THEN [@ EXCEPT !.pc = "leave",
                                    !.res = [dir |-> EmptyDirectory,
                                             err |-> Errorf("reading directory from source",
                                                            rr.err)]]
                     ELSE [@ EXCEPT !.pc = "decode", !.stream = rr.stream]]
        /\ hist' = [CountLoad(hist, th[t].key) EXCEPT !.failed = @ \/ rr.err # ""]
    /\ UNCHANGED <<pure, dirSt, arc, cache, tl, sg>>

\* The body of an object-store response is read under the caller's context:
\* after a cancellation the read fails, or succeeds on bytes already received.
LoadDecode(t) ==
    /\ th[t].pc = "decode"
    /\ \E bodyOk \in (IF arc.reader = "s3" /\ th[t].canceled THEN BOOLEAN ELSE {TRUE}) :
       \E d \in {DirectoryFromStream(SourceAt(th[t].src).header, th[t].stream)} :
        /\ th' = [th EXCEPT ![t].pc = "leave", ![t].stream = <<>>,
                            ![t].res =
                                IF bodyOk THEN [dir |-> d.dir, err |-> d.err]
                                ELSE [dir |-> EmptyDirectory,
                                      err |-> Errorf("deserializing directory",
                                                     "context canceled")]]
        /\ hist' = [hist EXCEPT !.failed = @ \/ ~bodyOk \/ d.err # Nil]
    /\ UNCHANGED <<pure, dirSt, arc, cache, tl, sg>>

\* A leader that leaves the group without handing its result to the waiters.
LeaveAlone(t) ==
    /\ th[t].pc = "leave"
    /\ sg' = [k \in DOMAIN sg \ {th[t].key} |-> sg[k]]
    /\ th' = [th EXCEPT ![t].pc = "post"]
    /\ UNCHANGED <<pure, dirSt, arc, cache, tl, hist>>

Leave(t) ==
    /\ th[t].pc = "leave"
    /\ sg' = [k \in DOMAIN sg \ {th[t].key} |-> sg[k]]
    /\ th' = [w \in Threads |->
                 IF w = t THEN [th[w] EXCEPT !.pc = "post"]
                 ELSE IF th[w].pc = "wait" /\ th[w].leader = t
                 THEN [th[w] EXCEPT !.pc = "post", !.res = th[t].res]
                 ELSE th[w]]
    /\ UNCHANGED <<pure, dirSt, arc, cache, tl, hist>>

\* A caller that stores what the flight returned, error or not.
PostAlways(t) ==
    /\ th[t].pc = "post"
    /\ th' = [th EXCEPT ![t].pc = "done",
                        ![t].ret = [dir |-> [th[t].res.dir EXCEPT !.key = th[t].key],
                                    err |-> th[t].res.err]]
    /\ cache' = CacheSet(cache, th[t].key, [th[t].res.dir EXCEPT !.key = th[t].key])
    /\ UNCHANGED <<pure, dirSt, arc, tl, sg, hist>>

Post(t) ==
    /\ th[t].pc = "post"
    /\ IF th[t].res.err # Nil
       THEN /\ th' = [th EXCEPT ![t].pc = "done",
                                ![t].ret = [dir |-> EmptyDirectory, err |-> th[t].res.err]]
            /\ UNCHANGED <<cache, hist>>
       ELSE \E admit \in BOOLEAN :
            \E dir \in {[th[t].res.dir EXCEPT !.key = th[t].key]} :
               /\ th' = [th EXCEPT ![t].pc = "done", ![t].ret = [dir |-> dir, err |-> Nil]]
               /\ cache' = IF admit THEN CacheSet(cache, th[t].key, dir) ELSE cache
               /\ hist' = [hist EXCEPT !.lossy = @ \/ ~admit]
    /\ UNCHANGED <<pure, dirSt, arc, tl, sg>>

Cancel(t) ==
    /\ th[t].pc \in {"wait", "fn", "load", "decode"}
    /\ ~th[t].canceled
    /\ th' = [th EXCEPT ![t].canceled = TRUE,
                        ![t].aborted = th[t].pc \in {"load", "decode"}]
    /\ UNCHANGED <<pure, dirSt, arc, cache, tl, sg, hist>>

Evict ==
    /\ \E k \in DOMAIN cache : cache' = [j \in DOMAIN cache \ {k} |-> cache[j]]
    /\ hist' = [hist EXCEPT !.lossy = TRUE]
    /\ UNCHANGED <<pure, dirSt, arc, tl, th, sg>>

Next ==
    \/ \E t \in Threads :
        \/ Call(t)
        \/ Do(t)
        \/ Fn(t)
        \/ LoadRead(t)
        \/ LoadDecode(t)
        \/ Leave(t)
        \/ Post(t)
        \/ Cancel(t)
    \/ Evict

Spec == Init /\ [][Next]_vars

\* The same under fair scheduling: a goroutine that can take its next step
\* takes it, and every range read and decode step finishes.  New calls,
\* cancellations and evictions may or may not happen.
\* The decode step is enabled exactly when the goroutine is at "decode";
\* its weak fairness is written out with that condition.
FairDecode(t) == <>[](th[t].pc = "decode") => []<><<LoadDecode(t)>>_vars

Fairness ==
    \A t \in Threads :
        /\ WF_vars(Do(t))
        /\ WF_vars(Fn(t))
        /\ WF_vars(LoadRead(t))
        /\ FairDecode(t)
        /\ WF_vars(Leave(t))
        /\ WF_vars(Post(t))

\* The callers share one archive in the object store, where a request can
\* fail and a cancellation reaches the read.
LiveInit ==
    /\ dirSt = IdleDir
    /\ tl = IdleTile
    /\ cache = EmptyCache
    /\ th = [t \in Threads |-> IdleThread]
    /\ sg = EmptyGroup
    /\ hist = NoHistory
    /\ pure = IdlePure
    /\ \E a \in Archives :
        /\ a.root = "tile+leaf" /\ a.la = "tile" /\ a.tc = CompressionNone
        /\ a.reader = "s3" /\ a.ic = CompressionNone
        /\ arc = NewSource(a)

SpecLive == LiveInit /\ [][Next]_vars /\ Fairness

(***************************************************************************)
(* SpecShared: two sources with different etags on one repository (one     *)
(* cache, one single-flight group); the callers with an odd number hold    *)
(* the first source, the others the second, and each calls DirectoryAt for *)
(* a range of its source.  The specification also builds the keys of two   *)
(* triples (etag, offset, length), the etags being strings of digits and   *)
(* colons up to two characters long (KeyBuild).                            *)
(***************************************************************************)
Etags ==
    UNION {[Range1(n) -> {"1", ":"}] : n \in {0, 1, 2}}

KeyNumbers == {0, 1, 10, 11}

KeyTriples == Etags \X KeyNumbers \X KeyNumbers

SharedCallers ==
    /\ dirSt = IdleDir
    /\ tl = IdleTile
    /\ cache = EmptyCache
    /\ th = [t \in Threads |-> [IdleThread EXCEPT !.srcs = {2 - (t % 2)}]]
    /\ sg = EmptyGroup
    /\ hist = NoHistory
    /\ pure = IdlePure
    /\ \E a \in Archives :
        /\ a.root = "tile+leaf" /\ a.la = "tile" /\ a.tc = CompressionNone
        /\ a.reader = "file" /\ a.ic = CompressionNone
        /\ arc = [reader |-> NewSource(a).reader, file |-> NewSource(a).file,
                  header |-> NewSource(a).header, peer |-> NewSource(PeerArchive(a))]

SharedKeys ==
    /\ dirSt = IdleDir
    /\ tl = IdleTile
    /\ cache = EmptyCache
    /\ th = [t \in Threads |-> [IdleThread EXCEPT !.srcs = {}]]
    /\ sg = EmptyGroup
    /\ hist = NoHistory
    /\ arc = IdleArchive
    /\ \E a \in KeyTriples, b \in KeyTriples :
        pure = [pc |-> "triples", a |-> a, b |-> b]

SharedInit == SharedCallers \/ SharedKeys

KeyBuild ==
    /\ pure.pc = "triples"
    /\ pure' = [pc |-> "keys", a |-> pure.a, b |-> pure.b,
                ka |-> buildCacheKey(pure.a[1], pure.a[2], pure.a[3]),
                kb |-> buildCacheKey(pure.b[1], pure.b[2], pure.b[3])]
    /\ UNCHANGED repoVars

SharedNext == Next \/ KeyBuild

SpecShared == SharedInit /\ [][SharedNext]_vars

(***************************************************************************)
(* C9  Lookup soundness (D2): FindTile(t) returns nothing, or an entry e   *)
(* of the directory with e.TileID <= t and either e.RunLength = 0 or       *)
(* t < e.TileID + e.RunLength (the sum taken in the integers).             *)
(***************************************************************************)
FoundEntry == dirSt.dec.entries[dirSt.found]

LookupSound ==
    dirSt.pc = "found" =>
        \/ dirSt.found = 0
        \/ /\ dirSt.found \in 1..Len(dirSt.dec.entries)
           /\ FoundEntry.TileID <= dirSt.target
           /\ \/ FoundEntry.RunLength = 0
              \/ dirSt.target < FoundEntry.TileID + FoundEntry.RunLength

\* A tile id inside a run, past its first id, on a directory that is not sorted.
LookupSoundWitness ==
    /\ dirSt.pc = "found"
    /\ dirSt.found > 0
    /\ ~Nondecreasing(dirSt.dec.entries)
    /\ FoundEntry.RunLength > 1
    /\ dirSt.target > FoundEntry.TileID

(***************************************************************************)
(* C10  Directory round trip (D1): for entries with nondecreasing tileIds  *)
(* whose stored offsets (offset + 1) fit a uint64, deserializing the       *)
(* conformant serialization succeeds and yields the original entries in    *)
(* order: tileIds as running sums of the deltas, a stored 0 after the      *)
(* first entry as the previous decoded offset plus the previous length.    *)
(***************************************************************************)
Encodable(e) ==
    \A i \in Range1(Len(e)) :
        /\ StoredOffset(e, i) < U64
        /\ e[i].RunLength < U32
        /\ e[i].Offset \in 0..(U64 - 1)

RoundTrip ==
    (dirSt.pc # "input" /\ Nondecreasing(dirSt.ents) /\ Encodable(dirSt.ents)) =>
        /\ dirSt.dec.err = NoErr
        /\ dirSt.dec.entries = dirSt.ents

\* A chain of two propagated offsets over growing tile ids, decoded.
RoundTripWitness ==
    /\ dirSt.pc = "decoded"
    /\ Len(dirSt.ents) = 3
    /\ StoredOffset(dirSt.ents, 2) = 0
    /\ StoredOffset(dirSt.ents, 3) = 0
    /\ dirSt.ents[2].Length > 0
    /\ dirSt.ents[1].TileID < dirSt.ents[3].TileID
    /\ dirSt.dec.entries = dirSt.ents

(***************************************************************************)
(* Claims about one Tile call, read off the call's log.                    *)
(***************************************************************************)
Events(op, kind) == {i \in DOMAIN tl.log : tl.log[i].op = op /\ tl.log[i].kind = kind}

DirectoryLoads == {i \in DOMAIN tl.log : tl.log[i].op = "DirectoryAt"}

Lookups == {i \in DOMAIN tl.log : tl.log[i].op = "FindTile"}

TileReads == Events("ReadRange", "tile")

LastEvent == tl.log[Len(tl.log)]

\* C4: a Tile call performs at most 3 directory loads, whatever the archive
\* holds; when the third directory's lookup still yields a leaf pointer the
\* call returns the depth-exceeded error and has issued no tile-body read.
BoundedWalk ==
    /\ Cardinality(DirectoryLoads) <= 3
    /\ (Cardinality(Lookups) = 3 /\ LastEvent.op = "FindTile" /\ LastEvent.kind = "leaf")
        => /\ tl.pc = "done"
           /\ tl.ret = [data |-> <<>>, err |-> Errorf("maximum directory depth exceeded", "")]
           /\ TileReads = {}

\* A call on a cycle of leaf pointers: the same directory is loaded again and
\* the call ends with the depth error.
BoundedWalkWitness ==
    /\ tl.pc = "done"
    /\ Cardinality(DirectoryLoads) = 3
    /\ \E i, j \in DirectoryLoads : i < j /\ tl.log[i].off = tl.log[j].off
    /\ LastEvent.op = "FindTile" /\ LastEvent.kind = "leaf"
    /\ tl.ret.err = Errorf("maximum directory depth exceeded", "")

\* C5: when the lookup in the current directory, root or leaf, returns no
\* entry, the call is over: it returns empty bytes and a nil error and has
\* issued no tile-body read.
NotFoundIsValue ==
    (tl.log # <<>> /\ LastEvent.op = "FindTile" /\ LastEvent.kind = "nil")
        => /\ tl.pc = "done"
           /\ tl.ret = [data |-> <<>>, err |-> Nil]
           /\ TileReads = {}

\* The lookup in a leaf directory finds nothing.
NotFoundIsValueWitness ==
    /\ tl.pc = "done"
    /\ Cardinality(DirectoryLoads) = 2
    /\ LastEvent.op = "FindTile" /\ LastEvent.kind = "nil"
    /\ tl.ret = [data |-> <<>>, err |-> Nil]

\* C6: a call with z < MinZoom or z > MaxZoom returns the zoom error and
\* performs no directory load and no tile read; a call with z inside the
\* range never returns the zoom error.
ZoomGuard ==
    tl.pc # "idle" =>
        IF tl.req[1] < arc.header.MinZoom \/ tl.req[1] > arc.header.MaxZoom
        THEN tl.pc = "done" /\ tl.ret.err = Errorf("invalid zoom", "") /\ tl.log = <<>>
        ELSE tl.ret.err.op # "invalid zoom"

\* A call above MaxZoom whose x and y are valid for that zoom.
ZoomGuardWitness ==
    /\ tl.pc = "done"
    /\ tl.req[1] > arc.header.MaxZoom
    /\ FastZXYToHilbertTileID(tl.req[1], tl.req[2], tl.req[3]).err = ""
    /\ tl.ret.err = Errorf("invalid zoom", "")
    /\ tl.log = <<>>

\* C7: when the walk reached a tile entry and the read succeeded, the bytes
\* returned are the decompression, by the header's tile codec, of the bytes
\* of the tile range.
TileDecompressed ==
    (tl.pc = "done" /\ TileReads # {} /\ tl.ret.err = Nil)
        => tl.ret.data = Decompress(FileBytes(arc.file, LastEvent.off, LastEvent.len),
                                    arc.header.TileCompression).data

\* C8: the first directory loaded is the root range; after a leaf pointer the
\* next event is the load of (LeafDirectoryOffset + offset, length); after a
\* tile entry exactly one tile-body read follows, of (TileDataOffset + offset,
\* length), and it ends the call; every later directory load directly
\* follows a lookup that returned a leaf pointer.
AfterLookup(i) ==
    LET e == tl.log[i] IN
    CASE e.kind = "leaf" ->
            IF i = Len(tl.log)
            THEN \/ tl.pc = "done" /\ Cardinality(Lookups) = 3
                 \/ /\ tl.pc = "dir"
                    /\ tl.dO = (arc.header.LeafDirectoryOffset + e.off) % U64
                    /\ tl.dS = e.len
            ELSE /\ tl.log[i + 1].op = "DirectoryAt"
                 /\ tl.log[i + 1].off = (arc.header.LeafDirectoryOffset + e.off) % U64
                 /\ tl.log[i + 1].len = e.len
      [] e.kind = "tile" ->
            IF i = Len(tl.log) THEN tl.pc = "tile"
            ELSE /\ i + 1 = Len(tl.log)
                 /\ tl.pc = "done"
                 /\ tl.log[i + 1] = Event("ReadRange",
                                          (arc.header.TileDataOffset + e.off) % U64,
                                          e.len, "tile")
      [] e.kind = "nil" -> i = Len(tl.log)

BeforeLoad(i) ==
    IF i = 1
    THEN tl.log[i].off = arc.header.RootOffset /\ tl.log[i].len = arc.header.RootLength
    ELSE tl.log[i - 1].op = "FindTile" /\ tl.log[i - 1].kind = "leaf"

WalkOrder ==
    /\ tl.log # <<>> => tl.log[1].op = "DirectoryAt"
    /\ \A i \in DirectoryLoads : BeforeLoad(i)
    /\ \A i \in Lookups : AfterLookup(i)
    /\ \A i \in TileReads : i = Len(tl.log) /\ tl.log[i - 1].op = "FindTile"
                            /\ tl.log[i - 1].kind = "tile"
    /\ \A i \in Events("ReadRange", "dir") :
            tl.log[i - 1] = Event("DirectoryAt", tl.log[i].off, tl.log[i].len, "miss")

\* A call that goes through two leaf directories to a tile and reads it.
WalkOrderWitness ==
    /\ tl.pc = "done"
    /\ Cardinality(Events("FindTile", "leaf")) = 2
    /\ Cardinality(TileReads) = 1
    /\ tl.ret.err = Nil
    /\ tl.ret.data # <<>>

(***************************************************************************)
(* Claims about concurrent DirectoryAt calls.                              *)
(***************************************************************************)
Loading(t) == th[t].pc \in {"load", "decode"}

Returned(t) == th[t].pc \in {"post", "done"}

\* C1: from a cold cache, whatever the interleaving of the callers' steps,
\* NewDirectory runs at most once per key as long as the cache has neither
\* evicted nor rejected an entry (and no load has failed).
LoadAtMostOnce ==
    (~hist.lossy /\ ~hist.failed) => \A k \in DOMAIN hist.loads : hist.loads[k] <= 1

OneLoader ==
    \A t, u \in Threads : (t # u /\ Loading(t) /\ Loading(u)) => th[t].key # th[u].key

FollowersShare ==
    \A w \in Threads :
        th[w].leader # 0 =>
            /\ th[w].pc \in {"wait", "post", "done"}
            /\ th[w].key = th[th[w].leader].key
            /\ th[w].pc = "wait" =>
                   /\ InFlight(sg, th[w].key) /\ sg[th[w].key] = th[w].leader
                   /\ th[th[w].leader].pc \in {"fn", "load", "decode", "leave"}
            /\ Returned(w) => Returned(th[w].leader) /\ th[w].res = th[th[w].leader].res
            /\ (th[w].pc = "done" /\ th[th[w].leader].pc = "done")
                   => th[w].ret = th[th[w].leader].ret

ArrivalWaits ==
    \A t \in Threads :
        (th[t].pc = "do" /\ th'[t].pc # "do"
         /\ \E l \in Threads : l # t /\ Loading(l) /\ th[l].key = th[t].key)
            => th'[t].pc = "wait" /\ hist'.loads = hist.loads

\* C2: at any moment at most one load per key is in progress; a caller that
\* enters the group for a key while its load is in progress starts no load and
\* waits, and what it returns is what the leader returns, value or error.
SharedFlight == [](OneLoader /\ FollowersShare) /\ [][ArrivalWaits]_vars

\* A waiter and its leader have both returned the same directory.
SharedFlightWitness ==
    \E w \in Threads :
        /\ th[w].leader # 0
        /\ th[w].pc = "done" /\ th[th[w].leader].pc = "done"
        /\ th[w].ret = th[th[w].leader].ret
        /\ th[w].ret.err = Nil
        /\ th[w].ret.dir.entries # <<>>
        /\ hist.loads[th[w].key] = 1

\* C3: a leader whose context is canceled during its load ends the load with
\* the cancellation error, and every caller that waited for it receives that
\* error and no directory.
LeaderCancelShared ==
    \A l \in Threads :
        (th[l].aborted /\ Returned(l)) =>
            /\ th[l].res = [dir |-> EmptyDirectory,
                            err |-> [th[l].res.err EXCEPT !.cause = "context canceled"]]
            /\ \A w \in Threads : (th[w].leader = l /\ Returned(w)) => th[w].res = th[l].res

(***************************************************************************)
(* Claims about the Hilbert codecs.                                        *)
(***************************************************************************)
ValidTriple == pure.z <= 26 /\ pure.x < 2 ^ pure.z /\ pure.y < 2 ^ pure.z

\* C11: for z <= 26, x < 2^z, y < 2^z the reference encoder succeeds, and the
\* reference decoder applied to its id returns (z, x, y).
HilbertRoundTrip ==
    /\ (pure.pc \in {"id", "back"} /\ ValidTriple) => pure.ref.err = ""
    /\ pure.pc = "back" =>
           pure.refBack = [zxy |-> <<pure.z, pure.x, pure.y>>, err |-> ""]

\* A triple in the flipped quadrant of a zoom above 2 has made the round trip.
HilbertRoundTripWitness ==
    /\ pure.pc = "back"
    /\ pure.z >= 3
    /\ pure.x >= 2 ^ (pure.z - 1) /\ pure.y < 2 ^ (pure.z - 1)
    /\ pure.x # pure.y + 2 ^ (pure.z - 1)
    /\ pure.ref.id > (4 ^ pure.z - 1) \div 3
    /\ pure.refBack.zxy = <<pure.z, pure.x, pure.y>>

\* C12: for z <= 26, x < 2^z, y < 2^z the fast encoder and the reference
\* encoder return the same id without error, and on that id the fast decoder
\* returns, without error, the triple the reference decoder returns.
FastMatchesOriginal ==
    /\ (pure.pc \in {"id", "back"} /\ ValidTriple) =>
           /\ pure.fast.err = "" /\ pure.ref.err = ""
           /\ pure.fast.id = pure.ref.id
    /\ pure.pc = "back" =>
           /\ ~pure.fastBack.hangs
           /\ pure.fastBack.err = pure.refBack.err
           /\ pure.fastBack.zxy = pure.refBack.zxy

\* Both decoders have returned a triple of zoom 3 or more whose x and y bits
\* differ at more than one level.
FastMatchesOriginalWitness ==
    /\ pure.pc = "back"
    /\ pure.z >= 3
    /\ pure.x = 5 /\ pure.y = 2
    /\ pure.fast.id = pure.ref.id
    /\ pure.fastBack.zxy = <<pure.z, 5, 2>>
    /\ pure.refBack.zxy = <<pure.z, 5, 2>>

(***************************************************************************)
(* Claims about the cache key and the cache.                               *)
(***************************************************************************)
\* f is the decimal numeral of n: digits only, no leading zero.
IsDecimalOf(f, n) ==
    /\ Len(f) >= 1
    /\ \A i \in Range1(Len(f)) : \E d \in 0..9 : Digit(d) = f[i]
    /\ Len(f) > 1 => f[1] # "0"
    /\ DecimalValue(f) = n

\* k is etag, ':', decimal offset, ':', decimal length.
IsKeyOf(k, etag, offset, length) ==
    \E i \in Range1(Len(k)), j \in Range1(Len(k)) :
        /\ i < j
        /\ k[i] = ":" /\ k[j] = ":"
        /\ SubSeq(k, 1, i - 1) = etag
        /\ IsDecimalOf(SubSeq(k, i + 1, j - 1), offset)
        /\ IsDecimalOf(SubSeq(k, j + 1, Len(k)), length)

\* The decode of the caller's range of the caller's archive, under its key.
OwnDirectory(t) ==
    NewDirectory(SourceAt(th[t].src).header, SourceAt(th[t].src).reader,
                 SourceAt(th[t].src).file, th[t].off, th[t].len, FALSE, TRUE)

\* C13: the key of (etag, offset, length) is etag, ':', decimal offset, ':',
\* decimal length, and two distinct triples never have the same key; with
\* sources of different etags on one cache and one single-flight group, a call
\* that returns a directory returns the decode of its own range of its own
\* archive, stamped with its own key.
KeyIsolation ==
    /\ pure.pc = "keys" =>
           /\ IsKeyOf(pure.ka, pure.a[1], pure.a[2], pure.a[3])
           /\ IsKeyOf(pure.kb, pure.b[1], pure.b[2], pure.b[3])
           /\ pure.ka = pure.kb => pure.a = pure.b
    /\ \A t \in Threads :
           th[t].pc # "idle" =>
               IsKeyOf(th[t].key, SourceAt(th[t].src).header.Etag, th[t].off, th[t].len)
    /\ \A t \in Threads :
           (th[t].pc = "done" /\ th[t].ret.err = Nil) =>
               /\ OwnDirectory(t).err = Nil
               /\ th[t].ret.dir = [OwnDirectory(t).dir EXCEPT !.key = th[t].key]

\* Two callers have returned the directories of the same range of the two
\* archives, one of them from the cache, and the directories differ.
KeyIsolationWitness ==
    \E t \in Threads, u \in Threads :
        /\ th[t].pc = "done" /\ th[u].pc = "done"
        /\ th[t].ret.err = Nil /\ th[u].ret.err = Nil
        /\ th[t].src = 1 /\ th[u].src = 2
        /\ th[t].off = th[u].off /\ th[t].len = th[u].len
        /\ th[t].ret.dir.entries # th[u].ret.dir.entries
        /\ th[u].key \in DOMAIN cache
        /\ th[t].key \in DOMAIN cache

\* The keys of two distinct triples are built, where dropping a colon or
\* moving a digit between the fields would make them equal.
KeyNearMissWitness ==
    /\ pure.pc = "keys"
    /\ pure.a = <<(<<"1", ":">>), 1, 0>>
    /\ pure.b = <<(<<"1">>), 11, 0>>
    /\ pure.ka # pure.kb

\* Tile with a cache that always misses: every DirectoryAt finds the cache
\* empty.  The I/O calls of the walk are counted from 1; the call with the
\* number failAt fails (none when failAt = 0).
ColdDirectoryAt(src, offset, length, ioOk) ==
    DirectoryAt(EmptyCache, src.header, src.reader, src.file, offset, length,
                FALSE, ioOk, TRUE)

\* The bytes and the error of a read, as Tile hands them to its caller.
DataAndErr(r) == [data |-> r.data, err |-> r.err]

RECURSIVE ColdWalk(_, _, _, _, _, _)
RECURSIVE ColdFind(_, _, _, _, _)
RECURSIVE ColdEntry(_, _, _, _, _, _)
ColdWalk(src, tileId, dO, dS, depth, failAt) ==
    ColdFind(src, tileId, depth, failAt,
             ColdDirectoryAt(src, dO, dS, failAt # depth + 1))

ColdFind(src, tileId, depth, failAt, r) ==
    IF r.err # Nil THEN [data |-> <<>>, err |-> r.err]
    ELSE ColdEntry(src, tileId, depth, failAt, r.dir.entries,
                   FindTile(r.dir.entries, tileId))

ColdEntry(src, tileId, depth, failAt, entries, i) ==
    IF i = 0 THEN NotFound
    ELSE IF entries[i].RunLength = 0
    THEN IF LoopEnds(depth + 1)
         THEN [data |-> <<>>, err |-> Errorf("maximum directory depth exceeded", "")]
         ELSE ColdWalk(src, tileId, LeafOffset(src.header, entries[i]),
                       entries[i].Length, depth + 1, failAt)
    ELSE DataAndErr(readTileBytes(src.header, src.reader, src.file,
                                  TileOffset(src.header, entries[i]), entries[i].Length,
                                  FALSE, failAt # depth + 2))

ColdTileAt(src, z, id, failAt) ==
    IF ZoomOutOfRange(src.header, z)
    THEN [data |-> <<>>, err |-> Errorf("invalid zoom", "")]
    ELSE IF id.err # ""
    THEN [data |-> <<>>, err |-> Errorf("resolving hilbert tile id", "")]
    ELSE ColdWalk(src, id.id, src.header.RootOffset, src.header.RootLength, 0, failAt)

ColdTile(src, req, failAt) ==
    ColdTileAt(src, req[1], FastZXYToHilbertTileID(req[1], req[2], req[3]), failAt)

\* C14: whatever the cache does (it admits or rejects a Set, it is flushed at
\* any moment), a DirectoryAt that succeeds returns the directory that
\* DirectoryAt returns on an empty cache, and Tile returns the bytes or the
\* error that Tile returns when every DirectoryAt finds the cache empty (with
\* the same I/O call failing, if one fails).
CacheTransparent ==
    /\ tl.pc = "find" =>
           /\ ColdDirectoryAt(arc, tl.dO, tl.dS, TRUE).err = Nil
           /\ tl.dir = ColdDirectoryAt(arc, tl.dO, tl.dS, TRUE).dir
    /\ tl.pc = "done" =>
           \E failAt \in 0..(directoryMaxDepth + 1) : tl.ret = ColdTile(arc, tl.req, failAt)

\* A call has returned tile bytes after a hit on the root, a rejected or
\* flushed leaf load in an earlier call, and a load of the leaf in this one.
CacheTransparentWitness ==
    /\ tl.pc = "done"
    /\ tl.ret.err = Nil /\ tl.ret.data # <<>>
    /\ \E i \in Range1(Len(tl.log)), j \in Range1(Len(tl.log)) :
        /\ i < j
        /\ tl.log[i].op = "DirectoryAt" /\ tl.log[i].kind = "hit"
        /\ tl.log[j].op = "DirectoryAt" /\ tl.log[j].kind = "miss"

\* A DirectoryAt step of the walk that missed the cache and succeeded.
LoadSucceeds ==
    /\ tl.pc = "dir" /\ tl'.pc = "find"
    /\ buildCacheKey(arc.header.Etag, tl.dO, tl.dS) \notin DOMAIN cache

CachedUnderKey(c, key, dir) ==
    /\ key \in DOMAIN c
    /\ c[key].key = dir.key
    /\ dir.key = key

HeaderOutcomes ==
    pure.pc = "parsed" =>
        /\ pure.new.err = "" <=>
               /\ Len(pure.d) >= 127
               /\ SubSeq(pure.d, 1, 7) = <<80, 77, 84, 105, 108, 101, 115>>
               /\ pure.d[8] = 3
        /\ pure.new.err = "" =>
               /\ pure.new.h.SpecVersion = 3
               /\ \A j \in Range1(Len(U64Fields)) :
                      pure.new.h[U64Fields[j]] = pure.fields[j]
               /\ pure.new.h.RootOffset = pure.fields[1]
        /\ pure.rf.err # "" => pure.rf.h = pure.h

\* A header holding a value with eight different bytes in one of its fields
\* has been parsed, and a ReadFrom on a header read earlier has failed.
HeaderOutcomesWitness ==
    /\ pure.pc = "parsed"
    /\ pure.new.err = ""
    /\ pure.new.h.TileDataOffset = <<513, 1027, 1541, 2055>>
    /\ pure.rf.err # ""
    /\ pure.h = PriorHeader

\* The bytes of the file in [offset, min(offset + length, L)).
BytesInRange == SubSeq(pure.file, pure.offset + 1, Min(pure.offset + pure.length, Len(pure.file)))

\* C17: for a file of L bytes and a range with length > 0,
\* FileRangeReader.ReadRange yields, with no error, exactly the file bytes
\* [offset, min(offset + length, L)): the slice, the truncated tail, or an
\* empty payload when offset >= L.
FileRangeExact ==
    (pure.pc = "read" /\ pure.length > 0 /\ pure.ioOk) =>
        /\ pure.fileBytes = [data |-> BytesInRange, err |-> ""]
        /\ pure.fileStream = [data |-> BytesInRange, err |-> ""]

\* C18: for a range with length > 0, S3RangeReader.ReadRange issues exactly
\* one GetObject for the bucket and the key, whose Range header is "bytes=",
\* the offset, "-", and offset + length - 1.
OneRangeRequest ==
    (pure.pc = "read" /\ pure.length > 0) =>
        pure.s3.requests =
            <<[Bucket |-> "bucket", Key |-> "key",
               Range |-> <<"b", "y", "t", "e", "s", "=">> \o Decimal(pure.offset)
                         \o <<"-">> \o Decimal(pure.offset + pure.length - 1)]>>

\* C19: when the range extends past the end of the object and the store
\* answers (a shorter body, an empty body, or 416),
\* S3RangeReader.ReadRange returns the bytes that exist, with no error.
PastEndIsPartial ==
    (/\ pure.pc = "read" /\ pure.length > 0 /\ pure.ioOk
     /\ pure.offset + pure.length > Len(pure.file)
     /\ pure.offset + pure.length <= U64
     /\ pure.length <= MaxInt64) =>
        /\ pure.s3.bytes = [data |-> BytesInRange, err |-> ""]
        /\ pure.s3.stream = [data |-> BytesInRange, err |-> ""]

\* C20: Decompress returns the input stream unchanged for CompressionNone and
\* CompressionUnknown, the stream of the uncompressed payload for
\* CompressionGZIP on a gzip stream, and for Brotli, Zstd and every other tag
\* the unsupported-compression error and no stream.
DecompressOutcomes ==
    pure.pc = "decompressed" =>
        /\ pure.tag \in {CompressionNone, CompressionUnknown} =>
               pure.out.err = "" /\ pure.out.data = pure.input
        /\ (pure.tag = CompressionGZIP /\ pure.zipped) =>
               pure.out.err = "" /\ pure.out.data = pure.payload
        /\ pure.tag \notin {CompressionNone, CompressionUnknown, CompressionGZIP} =>
               pure.out.err = "unsupported compression" /\ pure.out.data = <<>>

\* A gzip stream of a payload that itself starts like a gzip stream has been
\* decompressed once.
DecompressOutcomesWitness ==
    /\ pure.pc = "decompressed"
    /\ pure.tag = CompressionGZIP /\ pure.zipped
    /\ pure.payload = GzipMagic
    /\ pure.out.data = GzipMagic

(***************************************************************************)
(* Claims about the lookup, the decoder and the streams.                   *)
(***************************************************************************)
StrictlySorted(e) == \A i \in 1..(Len(e) - 1) : e[i].TileID < e[i + 1].TileID

\* The index of the entry with the greatest tileId <= t, 0 when there is none.
GreatestAtMost(e, t) ==
    IF \A i \in Range1(Len(e)) : e[i].TileID > t THEN 0
    ELSE CHOOSE i \in Range1(Len(e)) :
             /\ e[i].TileID <= t
             /\ \A j \in Range1(Len(e)) : e[j].TileID <= t => e[j].TileID <= e[i].TileID

\* The entry covers t: a leaf pointer, or a run that reaches past t (the
\* sum taken in the integers).
Covers(en, t) == en.RunLength = 0 \/ t < en.TileID + en.RunLength

Covering(e, t) ==
    IF GreatestAtMost(e, t) # 0 /\ Covers(e[GreatestAtMost(e, t)], t)
    THEN GreatestAtMost(e, t) ELSE 0

\* C21: on a directory strictly sorted by tileId, FindTile(t) returns the
\* entry with the greatest tileId <= t when that entry is a leaf pointer or a
\* tile entry with t < tileId + runLength, and nothing exactly when there is
\* no entry with tileId <= t or that entry is a tile entry whose run ends at
\* or before t.
LookupComplete ==
    (dirSt.pc = "found" /\ StrictlySorted(dirSt.dec.entries)) =>
        dirSt.found = Covering(dirSt.dec.entries, dirSt.target)

\* C22: every stream obtained from ReadRange while loading a directory,
\* reading a tile body or loading the metadata is closed before the
\* operation returns, on success and on every error path.
StreamsReleased == pure.pc = "returned" => pure.out.open = 0

\* C23: a wire run length v above 2^32-1 decodes to runLength 2^32-1, that
\* is runLength = min(v, 2^32-1), so a nonzero wire run length never decodes
\* to runLength 0.
RunLengthClamps ==
    (dirSt.pc # "input" /\ dirSt.dec.err = NoErr) =>
        \A i \in Range1(Len(dirSt.ents)) :
            /\ dirSt.dec.entries[i].RunLength = Min(dirSt.ents[i].RunLength, U32 - 1)
            /\ dirSt.ents[i].RunLength # 0 => dirSt.dec.entries[i].RunLength # 0

\* The bytes NewDirectory decodes: the section of the file, decompressed.
DirectoryStream ==
    Decompress(FileBytes(pure.file, pure.header.MetadataOffset,
                         pure.header.MetadataLength),
               pure.header.InternalCompression).data

\* The count of a stream, the bytes it takes (0 when the stream ends inside
\* it), and the values after it, for streams whose values take one byte each
\* and that may end in the middle of one.
CountEnds(s) ==
    IF s = <<>> THEN 0
    ELSE IF s[1] < 128 THEN 1
    ELSE IF Len(s) >= 2 /\ s[2] <= 1 THEN 2 ELSE 0

Count(s) == IF CountEnds(s) = 1 THEN s[1] ELSE (s[1] - 128) + 128 * s[2]

SingleBytes(s) ==
    /\ CountEnds(s) = 0 => Len(s) <= 1
    /\ \A i \in (CountEnds(s) + 1)..(Len(s) - 1) : s[i] < 128

ValuesRead(s) == Cardinality({i \in (CountEnds(s) + 1)..Len(s) : s[i] < 128})

\* The stream ends before the count and the 4N values after it.
Truncated(s) ==
    SingleBytes(s) /\ (CountEnds(s) = 0 \/ ValuesRead(s) < 4 * Count(s))

\* The field and the index the decoder is at when such a stream ends.
FieldRead(s) ==
    IF CountEnds(s) = 0 THEN "directory entries count"
    ELSE <<"tileId delta", "runLength", "length", "offset">>[(ValuesRead(s) \div Count(s)) + 1]

IndexRead(s) == IF CountEnds(s) = 0 THEN 0 ELSE ValuesRead(s) % Count(s)

DirectoryDecoded ==
    /\ pure.pc = "returned"
    /\ pure.op = "NewDirectory"
    /\ pure.out.err = Nil
       \/ pure.out.err.op \notin {"reading directory from source", "decompressing directory"}

\* C24: when the directory byte stream ends before the count and all 4N
\* varints have been read, deserialization fails with an error that names
\* the field being read and its index, and the caller of NewDirectory gets
\* an empty Directory with that error, never a partially filled one.
TruncatedIsDecodeError ==
    (DirectoryDecoded /\ Truncated(DirectoryStream)) =>
        /\ pure.out.err # Nil
        /\ pure.out.err.op = "deserializing directory"
        /\ pure.out.err.field = FieldRead(DirectoryStream)
        /\ pure.out.err.at = IndexRead(DirectoryStream)
        /\ pure.out.err.cause \in {"EOF", "unexpected EOF"}
        /\ pure.out.dir = EmptyDirectory

\* The covering entry of the call is a tile entry of length 0, or the header
\* has RootLength 0.
ZeroLengthTile ==
    /\ tl.pc = "done"
    /\ tl.log # <<>>
    /\ LastEvent.op = "ReadRange"
    /\ LastEvent.len = 0
    /\ \/ LastEvent.kind = "tile" /\ tl.ent.Length = 0
       \/ LastEvent.kind = "dir" /\ Len(tl.log) = 2 /\ arc.header.RootLength = 0

\* C25: ReadRange with length 0 fails validation on either reader without
\* reading the file or issuing a GetObject, whatever the offset; a Tile call
\* whose covering tile entry has length 0, or whose header has RootLength 0,
\* ends with that error and not with empty bytes.
ZeroLengthRejected ==
    /\ \A i \in DOMAIN tl.reads : tl.reads[i].len # 0
    /\ (tl.pc = "done" /\ tl.log # <<>> /\ LastEvent.op = "ReadRange" /\ LastEvent.len = 0) =>
           /\ tl.ret.err # Nil
           /\ tl.ret.err.cause = "invalid ranger"
           /\ tl.ret.data = <<>>
    /\ (tl.pc = "done" /\ arc.header.RootLength = 0 /\ tl.log # <<>>) => ZeroLengthTile
    /\ (tl.pc = "done" /\ tl.log # <<>> /\ LastEvent.kind = "tile" /\ tl.ent.Length = 0) =>
           ZeroLengthTile

\* A call that read two directories and then met a tile entry of length 0.
ZeroLengthRejectedWitness ==
    /\ ZeroLengthTile
    /\ LastEvent.kind = "tile"
    /\ Len(tl.reads) = 2
    /\ tl.ret.err # Nil
    /\ tl.ret.err.cause = "invalid ranger"

\* A call on a header with RootLength 0.
ZeroRootWitness ==
    /\ ZeroLengthTile
    /\ LastEvent.kind = "dir"
    /\ tl.reads = <<>>
    /\ tl.ret.err # Nil

\* The file starts with a well-formed header of version 3.
GoodHeader(file) ==
    Len(file) >= HeaderSizeBytes /\ SubSeq(file, 1, 7) = Magic /\ file[8] = 3

\* C26: NewSource reads and parses the header range [0, 127) before any
\* other range; the metadata range is read only after the header parsed and
\* its etag is set (synthesized non-empty when absent); when the header or
\* the metadata step fails NewSource returns an error and no Source, and
\* after a header failure no metadata read is issued.  After construction no
\* Tile, Header or Meta call changes the header, its Etag or the metadata.
ConstructionOrder ==
    /\ pure.log # <<>> =>
           pure.log[1] = [what |-> "header", off |-> 0, len |-> HeaderSizeBytes]
    /\ \A i \in DOMAIN pure.log : pure.log[i].what = "metadata" =>
           /\ i = 2
           /\ GoodHeader(pure.file)
           /\ pure.header.SpecVersion = 3
           /\ pure.header.Etag # <<>>
           /\ pure.log[i].off = FieldValue(pure.header.MetadataOffset)
           /\ pure.log[i].len = FieldValue(pure.header.MetadataLength)
    /\ pure.pc = "failed" => pure.source = "nil" /\ pure.err # ""
    /\ (pure.pc = "failed" /\ pure.step = "header") =>
           \A i \in DOMAIN pure.log : pure.log[i].what # "metadata"
    /\ (pure.pc \in {"header", "ready"}) => GoodHeader(pure.file) /\ Len(pure.log) >= 1
    /\ pure.pc = "ready" =>
           /\ pure.source = "source"
           /\ Len(pure.log) = 2
           /\ pure.meta = JsonObject
           /\ pure.built = <<[header |-> pure.header, meta |-> pure.meta]>>

\* A Source that was built and then asked for a tile and for its header.
ConstructionOrderWitness ==
    /\ pure.pc = "ready"
    /\ Len(pure.calls) = 2
    /\ pure.calls[1].op = "Tile"
    /\ pure.calls[2].op = "Header"
    /\ pure.header.Etag # <<>>

\* A construction that failed at the metadata, after the header was read.
MetadataFailureWitness ==
    /\ pure.pc = "failed"
    /\ pure.step = "metadata"
    /\ Len(pure.log) = 2

\* The caller is inside DirectoryAt.
Calling(t) == th[t].pc \in {"do", "wait", "fn", "load", "decode", "leave", "post"}

Leads(t) == \E k \in DOMAIN sg : sg[k] = t

\* C27: under fair scheduling, with every range read and decode step
\* finishing, every DirectoryAt call returns: from some point on no caller
\* is inside DirectoryAt (a caller leaves it only by returning), so no caller
\* waits forever and every leader leaves the group, also when the load fails
\* or is canceled; the step by which a leader leaves releases every follower
\* blocked on its key with the leader's result; and the group keeps no entry
\* of a leader that left, so that a later call for the key starts a new load.
CallsReturn ==
    /\ <>[](\A t \in Threads : ~Calling(t) /\ ~Leads(t))
    /\ [][\A t \in Threads : \A w \in Threads :
            (Leads(t) /\ ~Leads(t)' /\ th[w].pc = "wait" /\ th[w].leader = t) =>
                (th[w].pc' = "post" /\ th[w].res' = th[t].res)]_vars
    /\ [](\A k \in DOMAIN sg :
            th[sg[k]].key = k /\ th[sg[k]].pc \in {"fn", "load", "decode", "leave"})

\* A follower that was released with the error of its leader's failed load.
CallsReturnWitness ==
    \E t \in Threads : \E w \in Threads \ {t} :
        /\ th[t].pc = "done"
        /\ th[w].pc = "done"
        /\ th[w].leader = t
        /\ th[t].ret.err # Nil
        /\ th[w].ret.err = th[t].ret.err
        /\ th[w].key = th[t].key

\* C28: for every tile id below 0x5555... the fast decoder terminates (its
\* zoom-finding loop exits) and returns a zoom of at most 31; for every
\* (z, x, y) with z <= 31, x < 2^z, y < 2^z the fast decoder applied to the
\* fast encoder's id terminates and returns (z, x, y).
FastDecoderCovers ==
    /\ (pure.pc \in {"fastid", "fastback"} /\ pure.z <= TopZoom) =>
           pure.fast.err = "" /\ pure.fast.id < invalidTileID
    /\ pure.pc = "fastback" =>
           /\ ~pure.fastBack.hangs
           /\ pure.fastBack.err = ""
           /\ pure.fastBack.zxy[1] <= MaxFastZoom
           /\ pure.fastBack.zxy = <<pure.z, pure.x, pure.y>>

\* C29: a load that fails (range read, decompressor or decode) is neither
\* cached nor memoized: the caller, and every follower of that flight, gets
\* the error and an empty Directory; the step that returns it leaves the
\* cache as it was, and the cache never holds an empty Directory; the
\* group keeps nothing of the failed flight, and a call that finds the key
\* neither cached nor in flight loads it afresh.
FailedLoadsNotCached ==
    /\ [][\A t \in Threads :
            (th[t].pc = "post" /\ th[t].res.err # Nil /\ th[t].pc' = "done") =>
                /\ cache' = cache
                /\ th[t].ret' = [dir |-> EmptyDirectory, err |-> th[t].res.err]]_vars
    /\ [](\A k \in DOMAIN cache : cache[k].key = k /\ cache[k].size > 0)
    /\ [](\A w \in Threads :
            (th[w].pc \in {"post", "done"} /\ th[w].leader # 0) =>
                th[w].res = th[th[w].leader].res)
    /\ [](\A k \in DOMAIN sg : th[sg[k]].pc \in {"fn", "load", "decode", "leave"})
    /\ [][\A t \in Threads :
            /\ (th[t].pc = "do" /\ ~InFlight(sg, th[t].key) /\ th[t].pc' # "do") =>
                   th[t].pc' = "fn"
            /\ (th[t].pc = "fn" /\ th[t].key \notin DOMAIN cache /\ th[t].pc' # "fn") =>
                   th[t].pc' = "load"]_vars

\* A call failed; a later call for the same key loaded the directory afresh
\* and cached it.
FailedLoadsNotCachedWitness ==
    \E t \in Threads : \E w \in Threads \ {t} :
        /\ th[t].pc = "done" /\ th[w].pc = "done"
        /\ th[t].key = th[w].key
        /\ th[t].ret.err # Nil
        /\ th[w].ret.err = Nil
        /\ th[w].leader = 0
        /\ hist.loads[th[t].key] = 2
        /\ th[t].key \in DOMAIN cache

\* The offset value that stands on the wire for entry i.
WireOffset(i) == StoredOffset(dirSt.ents, i)

\* C30: in every successfully decoded directory each entry's offset is the
\* stored value minus 1 for a stored value >= 1, or the previous offset plus
\* the previous length for a stored 0; a stored 0 at the first entry does
\* not decode to 2^64-1, and a propagated offset does not wrap past 2^64-1.
OffsetsNeverWrap ==
    (dirSt.pc # "input" /\ dirSt.dec.err = NoErr) =>
        \A i \in Range1(Len(dirSt.dec.entries)) :
            IF WireOffset(i) >= 1
            THEN dirSt.dec.entries[i].Offset = WireOffset(i) - 1
            ELSE /\ i > 1
                 /\ dirSt.dec.entries[i].Offset =
                        dirSt.dec.entries[i - 1].Offset + dirSt.dec.entries[i - 1].Length

====
